---- MODULE Spec2Model ----
(***************************************************************************)
(* A model of multi-sampler.py: the render groups ("layered rendering")    *)
(* of the ReaSamplOmatic5000 multi-sampler and the handlers that drive     *)
(* them.                                                                   *)
(*                                                                         *)
(* Python objects live in two heaps: sr maps a SamploRange identity to     *)
(* its fields, gr maps a SamploGroup identity to its fields.  A list of    *)
(* objects is a sequence of identities.  Identity 0 is None.               *)
(***************************************************************************)
EXTENDS Integers, Sequences, FiniteSets, TLC

\* ----------------------------------------------------------------- bounds
MaxRanges == 3      \* SamploRange objects alive at the same time
MaxNote == 2        \* notes 0..MaxNote of the axis are used by the inputs
MaxTracks == 2      \* tracks of the REAPER project
MaxPending == 1     \* pending parse callbacks when the user asks for another
MaxHeight == 5      \* drawing heights 0..MaxHeight below the piano roll
MaxZones == 2       \* instruments on the track when an editing session starts
MaxOutside == 1     \* drags are followed this many notes beyond 0..MaxNote
MaxParsed == 5      \* ranges one rescan of a send graph creates
MaxSeparated == 3   \* tracks one project gains by separations
MaxSelected == 1    \* tracks the user selects at once while separating
MaxZoom == 1        \* zoom steps the two zoom sizes are away from the first

\* -------------------------------------------------------------- constants
None == 0           \* the value of render_group before insertion
Inf == 1000000      \* float('inf'); -Inf is -float('inf')
max_recursion_depth == 10
default_note == 60  \* setup's note range start without a last touched range
param_scale == 127  \* a note n is the parameter value n / 127
initial_width_per_note == 20     \* width_per_note as the module sets it
initial_piano_roll_height == 60  \* piano_roll_height as the module sets it
small_resize_width3 == initial_width_per_note  \* 3 * small_resize_width
min_zoom == 5       \* zoom and zoom_pianoroll: max(5, ...)
highlight == 1

SrIds == 1..(IF MaxParsed > MaxRanges + 1 THEN MaxParsed ELSE MaxRanges + 1)
Tracks == 1..MaxTracks
GrIds == 1..(2 * MaxRanges + 1)

VARIABLES
    sr,             \* SamploRange heap: identity -> fields
    gr,             \* SamploGroup heap: identity -> fields
    render_groups,  \* the global list of groups
    samplomatics,   \* the global list of live ranges
    raised,         \* the exception the last handler ended with ("" if none)
    current_track,  \* the global current_track (None or a track)
    last_touched,   \* the global last_touched (None or a range)
    freeze,         \* the value of the freeze checkbox
    timers,         \* Tk's pending root.after callbacks, oldest first
    ntracks,        \* REAPER: the project has the tracks 1..ntracks
    fxs,            \* REAPER: track -> its ReaSamplOmatic5000 instances
    sends,          \* REAPER: track -> destination tracks of its MIDI sends
    selected_tracks, \* REAPER: the set of selected tracks
    window_height,  \* Tk: window.winfo_height(), the height of the frame
    canvas_height,  \* Tk: canvas.winfo_height(), the height of the canvas
    width_per_note, \* the global width_per_note: pixels of a note
    piano_roll_height \* the global piano_roll_height: pixels of the piano roll

scriptVars == <<current_track, last_touched, freeze, timers>>
viewVars == <<window_height, canvas_height, width_per_note, piano_roll_height>>
hostVars == <<ntracks, fxs, sends, selected_tracks, viewVars>>
vars == <<sr, gr, render_groups, samplomatics, raised, scriptVars, hostVars>>

\* ---------------------------------------------------------------- helpers
Min2(a, b) == IF a < b THEN a ELSE b
Max2(a, b) == IF a > b THEN a ELSE b

\* A local name for a value: F with its name bound to v.
With(v, F(_)) == F(v)

Range(s) == {s[i] : i \in 1..Len(s)}

\* Mutant of RemoveFirst: the first element is dropped, whatever it is.
RemoveHead(s, x) == IF s = <<>> THEN <<>> ELSE Tail(s)

\* list.remove(x): drop the first element equal to x (the list is unchanged
\* here when x is absent; the callers decide what an absent x means).
RECURSIVE RemoveFirst(_, _)
RemoveFirst(s, x) ==
    IF s = <<>> THEN <<>>
    ELSE IF Head(s) = x THEN Tail(s)
    ELSE <<Head(s)>> \o RemoveFirst(Tail(s), x)

\* A SamploRange object that does not exist.
NoRange == [start |-> 0, end |-> 0, render_group |-> None, layer |-> 0,
            layer_count |-> 1, widget |-> "absent",
            x |-> 0, y |-> 0, width |-> 0, height |-> 0,
            fx |-> <<0, 0>>, mouse_current_x |-> 0, in_motion |-> FALSE,
            resize_side |-> 0, resize_start_left |-> 0]

\* Mutant of Geometry: every layer gets the quotient, the last one too.
GeometryEven(start, end, layer, layer_count, view) ==
    LET max_height == view.window_height - view.piano_roll_height
        height == max_height \div layer_count
    IN  [x |-> view.width_per_note * start,
         y |-> layer * height,
         width |-> view.width_per_note * (end - start + 1) - 2 * highlight,
         height |-> height - 2 * highlight]

\* redraw, lines 133-148: the place and the size of the widget of a range
\* [start, end] on the given layer of layer_count layers, with the sizes of
\* the view: the height of the frame and the two zoom sizes.  The last
\* layer takes what the division leaves.
Geometry(start, end, layer, layer_count, view) ==
    LET max_height == view.window_height - view.piano_roll_height
        height == max_height \div layer_count
    IN  [x |-> view.width_per_note * start,
         y |-> layer * height,
         width |-> view.width_per_note * (end - start + 1) - 2 * highlight,
         height |-> (IF layer = layer_count - 1
                     THEN height + (max_height - layer_count * height)
                     ELSE height) - 2 * highlight]

\* The sizes redraw reads: window.winfo_height() and the globals
\* width_per_note and piano_roll_height.
View ==
    [window_height |-> window_height, width_per_note |-> width_per_note,
     piano_roll_height |-> piano_roll_height]

\* The fields of a range with the widget as redraw places it with the sizes
\* of the view.
RedrawnIn(r, view) ==
    LET g == Geometry(r.start, r.end, r.layer, r.layer_count, view)
    IN  [r EXCEPT !.x = g.x, !.y = g.y, !.width = g.width,
                  !.height = g.height]

Redrawn(r) == RedrawnIn(r, View)

\* SamploRange.__init__: the fields after construction with the given
\* note range.  fx is the instrument the range stands for, as the track and
\* the place on it (<<0, 0>> when it does not matter which).  Of the mouse
\* fields, mouse_start_x is read only in the call that sets it, and the y
\* positions are never read: they are left out.
SamploRange(note_start, note_end) ==
    Redrawn([start |-> note_start, end |-> note_end, render_group |-> None,
             layer |-> 0, layer_count |-> 1, widget |-> "placed",
             x |-> 0, y |-> 0, width |-> 0, height |-> 0,
             fx |-> <<0, 0>>, mouse_current_x |-> 0, in_motion |-> FALSE,
             resize_side |-> 0, resize_start_left |-> 0])

\* SamploGroup.__init__
SamploGroup == [sranges |-> <<>>, start |-> Inf, end |-> -Inf, layers |-> <<>>,
                layered |-> FALSE]


\* ------------------------------------------------------------ SamploGroup
\* A group operation works on a context c = [sr, gr, live, raised]: the two
\* heaps, the identities of the groups that exist, and the pending
\* exception.  Once an exception is raised, the rest of the handler is
\* skipped.

MinStart(ids, srh) ==
    CHOOSE m \in {srh[i].start : i \in Range(ids)} :
        \A i \in Range(ids) : m <= srh[i].start
MaxEnd(ids, srh) ==
    CHOOSE m \in {srh[i].end : i \in Range(ids)} :
        \A i \in Range(ids) : m >= srh[i].end

\* SamploGroup.add
add(g, s, srh) ==
    [g EXCEPT !.sranges = Append(@, s),
              !.start = Min2(@, srh[s].start),
              !.end = Max2(@, srh[s].end)]

\* Mutant of remove: the bounds are not recomputed.
removeStale(g, s, srh) == [g EXCEPT !.sranges = RemoveFirst(g.sranges, s)]

\* SamploGroup.remove: a missing member is ignored (try/except), the bounds
\* are recomputed from the members that are left.
remove(g, s, srh) ==
    LET rest == RemoveFirst(g.sranges, s) IN
    IF Len(rest) > 0
    THEN [g EXCEPT !.sranges = rest,
                   !.start = MinStart(rest, srh),
                   !.end = MaxEnd(rest, srh)]
    ELSE [g EXCEPT !.sranges = rest]

\* SamploGroup.merge
merge(g, other) ==
    [g EXCEPT !.sranges = @ \o other.sranges,
              !.start = Min2(@, other.start),
              !.end = Max2(@, other.end)]

\* Mutant of intersect: ranges that only touch do not intersect.
intersectOpen(g, x) ==
    IF x.end <= g.start THEN FALSE
    ELSE IF g.end <= x.start THEN FALSE
    ELSE TRUE

\* Mutant of intersect: the second comparison is forgotten.
intersectOneSided(g, x) == IF x.end < g.start THEN FALSE ELSE TRUE

\* SamploGroup.intersect: x is a range or a group, anything with start, end.
intersect(g, x) ==
    IF x.end < g.start THEN FALSE
    ELSE IF g.end < x.start THEN FALSE
    ELSE TRUE

\* Mutant of InsertByStart: an unstable sort, a range is put before the
\* ranges with the same start.
RECURSIVE InsertBeforeTies(_, _, _)
InsertBeforeTies(sorted, s, srh) ==
    IF sorted = <<>> THEN <<s>>
    ELSE IF srh[Head(sorted)].start < srh[s].start
         THEN <<Head(sorted)>> \o InsertBeforeTies(Tail(sorted), s, srh)
         ELSE <<s>> \o sorted

\* list.sort(key=lambda x: x.start): a stable sort, here by insertion.
RECURSIVE InsertByStart(_, _, _)
InsertByStart(sorted, s, srh) ==
    IF sorted = <<>> THEN <<s>>
    ELSE IF srh[Head(sorted)].start <= srh[s].start
         THEN <<Head(sorted)>> \o InsertByStart(Tail(sorted), s, srh)
         ELSE <<s>> \o sorted

RECURSIVE SortByStart(_, _)
SortByStart(ids, srh) ==
    IF ids = <<>> THEN <<>>
    ELSE InsertByStart(SortByStart(SubSeq(ids, 1, Len(ids) - 1), srh),
                       ids[Len(ids)], srh)

\* Mutant of FillLayer: a range that starts at the end of the layer's last
\* range joins the layer too.
RECURSIVE FillLayerTouch(_, _, _, _)
FillLayerTouch(scan, layer, group_todo, srh) ==
    IF scan = <<>> THEN [layer |-> layer, group_todo |-> group_todo]
    ELSE IF srh[Head(scan)].start >= srh[layer[Len(layer)]].end
         THEN FillLayerTouch(Tail(scan), Append(layer, Head(scan)),
                             RemoveFirst(group_todo, Head(scan)), srh)
         ELSE FillLayerTouch(Tail(scan), layer, group_todo, srh)

\* The for loop of create_layers: scan is what is left of the copy
\* list(group_todo); a range that starts after the end of the layer's last
\* range joins the layer and leaves the todo list.
RECURSIVE FillLayer(_, _, _, _)
FillLayer(scan, layer, group_todo, srh) ==
    IF scan = <<>> THEN [layer |-> layer, group_todo |-> group_todo]
    ELSE IF srh[Head(scan)].start > srh[layer[Len(layer)]].end
         THEN FillLayer(Tail(scan), Append(layer, Head(scan)),
                        RemoveFirst(group_todo, Head(scan)), srh)
         ELSE FillLayer(Tail(scan), layer, group_todo, srh)

\* Mutant of BuildLayers: every range gets a layer of its own.
BuildLayersSingle(group_todo, layers, srh) ==
    [n \in 1..Len(group_todo) |-> <<group_todo[n]>>]

\* The while loop of create_layers.
RECURSIVE BuildLayers(_, _, _)
BuildLayers(group_todo, layers, srh) ==
    IF group_todo = <<>> THEN layers
    ELSE LET r == FillLayer(Tail(group_todo), <<Head(group_todo)>>,
                            Tail(group_todo), srh)
         IN BuildLayers(r.group_todo, Append(layers, r.layer), srh)

\* SamploGroup.create_layers: sorts the members in place, then layers them.
create_layers(g, srh) ==
    LET sorted == SortByStart(g.sranges, srh) IN
    [g EXCEPT !.sranges = sorted,
              !.layers = BuildLayers(sorted, <<>>, srh),
              !.layered = TRUE]

\* SamploGroup.get_layer: index (from 0) of the first layer holding s, or -1.
get_layer(g, s) ==
    LET hits == {n \in 1..Len(g.layers) : s \in Range(g.layers[n])} IN
    IF hits = {} THEN -1
    ELSE (CHOOSE n \in hits : \A m \in hits : n <= m) - 1

\* SamploRange.redraw, as far as the groups can tell: placing a widget that
\* was destroyed raises tkinter's TclError.
redraw(c, s) ==
    IF c.sr[s].widget = "destroyed" THEN [c EXCEPT !.raised = "TclError"]
    ELSE [c EXCEPT !.sr[s] = Redrawn(@)]

\* The for loop of update_srange_layers, from member k on.
RECURSIVE UpdateLoop(_, _, _)
UpdateLoop(c, g, k) ==
    IF c.raised # "" \/ k > Len(c.gr[g].sranges) THEN c
    ELSE LET s == c.gr[g].sranges[k]
             c1 == [c EXCEPT !.sr[s].render_group = g,
                             !.sr[s].layer_count = Len(c.gr[g].layers),
                             !.sr[s].layer = get_layer(c.gr[g], s)]
         IN UpdateLoop(redraw(c1, s), g, k + 1)

\* SamploGroup.update_srange_layers
update_srange_layers(c, g) ==
    IF c.raised # "" THEN c
    ELSE UpdateLoop([c EXCEPT !.gr[g] = create_layers(c.gr[g], c.sr)], g, 1)


\* ----------------------------------------------------------- group lists
\* SamploGroup(): a new object gets the least identity that is not in use.
NewGroup(c) == CHOOSE g \in GrIds \ c.live : \A h \in GrIds \ c.live : g <= h

\* Mutant of FirstIntersecting: the first group of the list, whatever its
\* bounds.
FirstOfList(c, groups, s) == IF groups = <<>> THEN 0 ELSE 1

\* Index of the first group of the list that intersects the range, 0 if none.
FirstIntersecting(c, groups, s) ==
    LET hits == {k \in 1..Len(groups) : intersect(c.gr[groups[k]], c.sr[s])} IN
    IF hits = {} THEN 0 ELSE CHOOSE k \in hits : \A m \in hits : k <= m

\* insert_in_groups: the range joins the first group whose bounds it
\* intersects, or a new group appended to the list.  Yields the context and
\* the list.
insert_in_groups(c, groups, s, update_srange) ==
    LET k == FirstIntersecting(c, groups, s)
        g == IF k # 0 THEN groups[k] ELSE NewGroup(c)
        old == IF k # 0 THEN c.gr[g] ELSE SamploGroup
    IN  [c |-> [c EXCEPT !.gr[g] = add(old, s, c.sr),
                         !.live = @ \cup {g},
                         !.sr[s].render_group =
                             IF update_srange THEN g ELSE @],
         groups |-> IF k # 0 THEN groups ELSE Append(groups, g)]

\* Mutant of SplitLoop: every member gets a group of its own.
RECURSIVE SplitLoopSingletons(_, _, _, _)
SplitLoopSingletons(c, g, k, groups_split) ==
    IF k > Len(c.gr[g].sranges) THEN [c |-> c, groups |-> groups_split]
    ELSE With(insert_in_groups(c, <<>>, c.gr[g].sranges[k], FALSE),
              LAMBDA r : SplitLoopSingletons(r.c, g, k + 1,
                                             groups_split \o r.groups))

\* The for loop of split, from member k of the group on.
RECURSIVE SplitLoop(_, _, _, _)
SplitLoop(c, g, k, groups_split) ==
    IF k > Len(c.gr[g].sranges) THEN [c |-> c, groups |-> groups_split]
    ELSE With(insert_in_groups(c, groups_split, c.gr[g].sranges[k], FALSE),
              LAMBDA r : SplitLoop(r.c, g, k + 1, r.groups))

\* Mutant of split: the group is handed back whole.
splitWhole(c, g) == [c |-> c, groups |-> <<g>>]

\* SamploGroup.split: the members of g regrouped into new groups.
split(c, g) == SplitLoop(c, g, 1, <<>>)

\* for group in groups_split: group.update_srange_layers()
RECURSIVE UpdateAll(_, _)
UpdateAll(c, groups) ==
    IF groups = <<>> THEN c
    ELSE UpdateAll(update_srange_layers(c, Head(groups)), Tail(groups))

\* Mutant of LeaveGroup: a group that stays in one piece is not layered
\* again after its member left.
LeaveGroupStale(c, groups, s) ==
    LET g == c.sr[s].render_group
        c1 == [c EXCEPT !.gr[g] = remove(c.gr[g], s, c.sr)]
    IN  IF g = None THEN [c |-> c, groups |-> groups]
        ELSE IF Len(c1.gr[g].sranges) = 0
        THEN [c |-> c1, groups |-> RemoveFirst(groups, g)]
        ELSE With(split(c1, g), LAMBDA sp :
             IF Len(sp.groups) > 1
             THEN [c |-> UpdateAll(sp.c, sp.groups),
                   groups |-> RemoveFirst(groups, g) \o sp.groups]
             ELSE [c |-> sp.c, groups |-> groups])

\* Mutant of LeaveGroup: a group that lost its last member stays in the
\* list.
LeaveGroupKeepEmpty(c, groups, s) ==
    LET g == c.sr[s].render_group
        c1 == [c EXCEPT !.gr[g] = remove(c.gr[g], s, c.sr)]
    IN  IF g = None THEN [c |-> c, groups |-> groups]
        ELSE IF Len(c1.gr[g].sranges) = 0
        THEN [c |-> c1, groups |-> groups]
        ELSE With(split(c1, g), LAMBDA sp :
             IF Len(sp.groups) > 1
             THEN [c |-> UpdateAll(sp.c, sp.groups),
                   groups |-> RemoveFirst(groups, g) \o sp.groups]
             ELSE [c |-> update_srange_layers(sp.c, g), groups |-> groups])

\* move_through_groups, lines 416-434: the range leaves its group, which is
\* dropped when empty and split when its members fell apart.
LeaveGroup(c, groups, s) ==
    LET g == c.sr[s].render_group
        c1 == [c EXCEPT !.gr[g] = remove(c.gr[g], s, c.sr)]
    IN  IF g = None THEN [c |-> c, groups |-> groups]
        ELSE IF Len(c1.gr[g].sranges) = 0
        THEN [c |-> c1, groups |-> RemoveFirst(groups, g)]
        ELSE With(split(c1, g), LAMBDA sp :
             IF Len(sp.groups) > 1
             THEN [c |-> UpdateAll(sp.c, sp.groups),
                   groups |-> RemoveFirst(groups, g) \o sp.groups]
             ELSE [c |-> update_srange_layers(sp.c, g), groups |-> groups])

\* for s in srange.render_group.sranges: s.render_group = group
RECURSIVE Repoint(_, _, _)
Repoint(srh, members, group) ==
    IF members = <<>> THEN srh
    ELSE Repoint([srh EXCEPT ![Head(members)].render_group = group],
                 Tail(members), group)

\* Mutant of MergeLoop: the groups that intersect the range's group are
\* left as they are.
MergeLoopSkip(c, groups, snapshot, s) == [c |-> c, groups |-> groups]

\* move_through_groups, lines 445-457: one pass over a copy of the list;
\* a group that intersects the range's group absorbs it.  Removing a group
\* that is no longer in the list raises ValueError.
RECURSIVE MergeLoop(_, _, _, _)
MergeLoop(c, groups, snapshot, s) ==
    IF snapshot = <<>> \/ c.raised # "" THEN [c |-> c, groups |-> groups]
    ELSE LET group == Head(snapshot)
             rg == c.sr[s].render_group
         IN  IF group = rg \/ ~intersect(c.gr[group], c.gr[rg])
             THEN MergeLoop(c, groups, Tail(snapshot), s)
             ELSE LET c1 == [c EXCEPT !.gr[group] = merge(@, c.gr[rg])] IN
                  IF rg \notin Range(groups)
                  THEN [c |-> [c1 EXCEPT !.raised = "ValueError"],
                        groups |-> groups]
                  ELSE MergeLoop(
                         [c1 EXCEPT !.sr = Repoint(@, c.gr[rg].sranges, group)],
                         RemoveFirst(groups, rg), Tail(snapshot), s)

\* Mutant of move_through_groups: a range without a group is refused.
move_through_groups_strict(c, groups, s) ==
    IF c.sr[s].render_group \notin Range(groups)
    THEN [c |-> [c EXCEPT !.raised = "AssertionError"], groups |-> groups]
    ELSE With(LeaveGroup(c, groups, s), LAMBDA a :
         With(insert_in_groups([a.c EXCEPT !.sr[s].render_group = None],
                               a.groups, s, TRUE), LAMBDA b :
         With(MergeLoop(b.c, b.groups, b.groups, s), LAMBDA m :
         [c |-> update_srange_layers(m.c, m.c.sr[s].render_group),
          groups |-> m.groups])))

\* move_through_groups: yields the context and the list.
move_through_groups(c, groups, s) ==
    IF ~(c.sr[s].render_group = None \/ c.sr[s].render_group \in Range(groups))
    THEN [c |-> [c EXCEPT !.raised = "AssertionError"], groups |-> groups]
    ELSE With(LeaveGroup(c, groups, s), LAMBDA a :
         IF a.c.raised # "" THEN a
         ELSE With(insert_in_groups([a.c EXCEPT !.sr[s].render_group = None],
                                    a.groups, s, TRUE), LAMBDA b :
              With(MergeLoop(b.c, b.groups, b.groups, s), LAMBDA m :
              [c |-> update_srange_layers(m.c, m.c.sr[s].render_group),
               groups |-> m.groups])))


\* ----------------------------------------------------------------- state
Notes == 0..MaxNote

\* The groups that exist: those a list or a range still refers to.
LiveGroups(srh, groups) ==
    (Range(groups) \cup {srh[s].render_group : s \in SrIds}) \ {None}

\* The context a handler starts with.
Ctx == [sr |-> sr, gr |-> gr, live |-> LiveGroups(sr, render_groups),
        raised |-> ""]

\* The ranges a group refers to: its members and what its layers hold.
Held(g) ==
    Range(g.sranges) \cup UNION {Range(g.layers[n]) : n \in 1..Len(g.layers)}

\* The objects that can be reached from the ranges rs and the groups gs.
RECURSIVE Reachable(_, _, _)
Reachable(c, rs, gs) ==
    LET gs1 == gs \cup ({c.sr[s].render_group : s \in rs} \ {None})
        rs1 == rs \cup UNION {Held(c.gr[g]) : g \in gs1}
    IN  IF gs1 = gs /\ rs1 = rs THEN [rs |-> rs, gs |-> gs]
        ELSE Reachable(c, rs1, gs1)

\* What a handler leaves behind.  Python frees an object nothing refers to,
\* and identities are only ever compared for equality, so the groups that
\* are left are renumbered: the groups of the list by their place in it,
\* then the groups only ranges refer to.  A destroyed range that only
\* last_touched refers to is read for its end alone; its other fields
\* are put back to their first values.  Yields the heaps and the list.
Collect(c, groups, ranges, touched) ==
    With(Reachable(c, Range(ranges), Range(groups)), LAMBDA keep :
    LET off == keep.gs \ Range(groups)
        Rank(g) ==
            IF g \in Range(groups)
            THEN CHOOSE k \in 1..Len(groups) : groups[k] = g
            ELSE Len(groups) + Cardinality({h \in off : h <= g})
    IN  [sr |-> [s \in SrIds |->
                    IF s \in keep.rs
                    THEN [c.sr[s] EXCEPT !.render_group =
                             IF @ = None THEN None ELSE Rank(@)]
                    ELSE IF s = touched
                    THEN [NoRange EXCEPT !.end = c.sr[s].end,
                                         !.widget = c.sr[s].widget]
                    ELSE NoRange],
         gr |-> [n \in GrIds |->
                    IF \E g \in keep.gs : Rank(g) = n
                    THEN c.gr[CHOOSE g \in keep.gs : Rank(g) = n]
                    ELSE SamploGroup],
         groups |-> [k \in 1..Len(groups) |-> k]])

\* The result r = [c, groups] of a handler's work, with what it leaves
\* behind.
Handled(r, ranges) == [c |-> r.c, h |-> Collect(r.c, r.groups, ranges, None)]

\* SamploRange(...): a new object gets the least identity that is not in use.
NewRange(srh) ==
    CHOOSE s \in SrIds : srh[s].widget = "absent" /\
        \A t \in SrIds : srh[t].widget = "absent" => s <= t

\* The window as it opens: the frame is as high as the canvas, and the zoom
\* sizes are those the module sets (lines 26-27).
InitView ==
    /\ window_height = initial_piano_roll_height + MaxHeight
    /\ canvas_height = window_height
    /\ width_per_note = initial_width_per_note
    /\ piano_roll_height = initial_piano_roll_height

\* The globals as the module sets them (lines 62-78), no Tk timer, and an
\* empty REAPER project.
Init ==
    /\ sr = [s \in SrIds |-> NoRange]
    /\ gr = [g \in GrIds |-> SamploGroup]
    /\ render_groups = <<>>
    /\ samplomatics = <<>>
    /\ raised = ""
    /\ current_track = None
    /\ last_touched = None
    /\ freeze = FALSE
    /\ timers = <<>>
    /\ ntracks = 0
    /\ fxs = [tr \in Tracks |-> <<>>]
    /\ sends = [tr \in Tracks |-> <<>>]
    /\ selected_tracks = {}
    /\ InitView

\* A range is created with a note range and added to the render groups, as
\* parse (lines 616-620) does for one instrument.
Insert(note_start, note_end) ==
    /\ Len(samplomatics) < MaxRanges
    /\ LET s == NewRange(sr)
           c == [Ctx EXCEPT !.sr[s] = SamploRange(note_start, note_end)]
       IN \E r \in {Handled(move_through_groups(c, render_groups, s),
                              Append(samplomatics, s))} :
           /\ sr' = r.h.sr
           /\ gr' = r.h.gr
           /\ render_groups' = r.h.groups
           /\ samplomatics' = Append(samplomatics, s)
           /\ raised' = r.c.raised
           /\ UNCHANGED <<scriptVars, hostVars>>

\* A drag gave the range a new note range and the render groups follow, as
\* mouse (lines 248-250) does after move or resize, when start or end is
\* not what it was.
Update(s, note_start, note_end) ==
    /\ s \in Range(samplomatics)
    /\ <<note_start, note_end>> # <<sr[s].start, sr[s].end>>
    /\ LET c == [Ctx EXCEPT !.sr[s].start = note_start,
                            !.sr[s].end = note_end]
       IN \E r \in {Handled(move_through_groups(c, render_groups, s),
                              samplomatics)} :
           /\ sr' = r.h.sr
           /\ gr' = r.h.gr
           /\ render_groups' = r.h.groups
           /\ raised' = r.c.raised
           /\ UNCHANGED <<samplomatics, scriptVars, hostVars>>

Next ==
    \/ \E a \in Notes, b \in Notes : a <= b /\ Insert(a, b)
    \/ \E s \in SrIds, a \in Notes, b \in Notes : a <= b /\ Update(s, a, b)

Spec == Init /\ [][Next]_vars

\* --------------------------------------------------------------- drawing
\* The heights the window takes: the piano roll as the module sets it and
\* 0..MaxHeight below it.
WindowHeights ==
    initial_piano_roll_height..(initial_piano_roll_height + MaxHeight)

\* The zoom sizes that are followed: those at most MaxZoom steps, of both
\* zooms together, away from the sizes the module sets.
Distance(a, b) == IF a < b THEN b - a ELSE a - b

ZoomFollowed(view) ==
    Distance(view.width_per_note, initial_width_per_note)
        + Distance(view.piano_roll_height, initial_piano_roll_height)
            <= MaxZoom

\* for samplerange in samplomatics: samplerange.redraw(), with the sizes of
\* the view.
RedrawAll(view) ==
    [s \in SrIds |->
        IF s \in Range(samplomatics) THEN RedrawnIn(sr[s], view) ELSE sr[s]]

\* resize (lines 671-678), the handler of <Configure>, run for the canvas:
\* Tk gave the canvas the height h (the height it has, when only something
\* else of the window changed).  The frame is asked to take the height of
\* the canvas, which Tk does when it is idle, and every live range is drawn
\* again with the height the frame has now.
WindowResize(h) ==
    /\ canvas_height' = h
    /\ sr' = RedrawAll(View)
    /\ raised' = ""
    /\ UNCHANGED <<gr, render_groups, samplomatics, scriptVars, ntracks, fxs,
                   sends, selected_tracks, window_height, width_per_note,
                   piano_roll_height>>

\* Tk is idle and gives the frame the height it was asked to take; the
\* frame's <Configure> runs resize (line 846 binds it for every widget of
\* the window): the frame is asked for the same height again and every live
\* range is drawn again, now with the new height.
FrameResize ==
    /\ window_height # canvas_height
    /\ window_height' = canvas_height
    /\ sr' = RedrawAll([View EXCEPT !.window_height = canvas_height])
    /\ raised' = ""
    /\ UNCHANGED <<gr, render_groups, samplomatics, scriptVars, ntracks, fxs,
                   sends, selected_tracks, canvas_height, width_per_note,
                   piano_roll_height>>

\* zoom, lines 687-689: the new width of a note.
zoom(view, z) == [view EXCEPT !.width_per_note = Max2(min_zoom, @ + z)]

\* zoom_pianoroll, lines 713-714: the new height of the piano roll.
zoom_pianoroll(view, z) ==
    [view EXCEPT !.piano_roll_height = Max2(min_zoom, @ + z)]

\* The + and - buttons and Control with the mouse wheel: zoom(1) or
\* zoom(-1).  Every live range is drawn again with the new width of a note.
Zoom(z) ==
    /\ ZoomFollowed(zoom(View, z))
    /\ width_per_note' = zoom(View, z).width_per_note
    /\ sr' = RedrawAll(zoom(View, z))
    /\ raised' = ""
    /\ UNCHANGED <<gr, render_groups, samplomatics, scriptVars, ntracks, fxs,
                   sends, selected_tracks, window_height, canvas_height,
                   piano_roll_height>>

\* Alt with the mouse wheel: zoom_pianoroll(1) or zoom_pianoroll(-1).
ZoomPianoroll(z) ==
    /\ ZoomFollowed(zoom_pianoroll(View, z))
    /\ piano_roll_height' = zoom_pianoroll(View, z).piano_roll_height
    /\ sr' = RedrawAll(zoom_pianoroll(View, z))
    /\ raised' = ""
    /\ UNCHANGED <<gr, render_groups, samplomatics, scriptVars, ntracks, fxs,
                   sends, selected_tracks, window_height, canvas_height,
                   width_per_note>>

\* The ranges are inserted and dragged in a window of any of the heights,
\* with the zoom sizes the module sets.
InitDraw ==
    /\ sr = [s \in SrIds |-> NoRange]
    /\ gr = [g \in GrIds |-> SamploGroup]
    /\ render_groups = <<>>
    /\ samplomatics = <<>>
    /\ raised = ""
    /\ current_track = None
    /\ last_touched = None
    /\ freeze = FALSE
    /\ timers = <<>>
    /\ ntracks = 0
    /\ fxs = [tr \in Tracks |-> <<>>]
    /\ sends = [tr \in Tracks |-> <<>>]
    /\ selected_tracks = {}
    /\ window_height \in WindowHeights
    /\ canvas_height = window_height
    /\ width_per_note = initial_width_per_note
    /\ piano_roll_height = initial_piano_roll_height

NextDraw ==
    \/ \E a \in Notes, b \in Notes : a <= b /\ Insert(a, b)
    \/ \E s \in SrIds, a \in Notes, b \in Notes : a <= b /\ Update(s, a, b)
    \/ \E h \in WindowHeights : WindowResize(h)
    \/ FrameResize
    \/ \E z \in {-1, 1} : Zoom(z)
    \/ \E z \in {-1, 1} : ZoomPianoroll(z)

SpecDraw == InitDraw /\ [][NextDraw]_vars


\* ------------------------------------------------------------- REAPER
\* A parameter value is kept as its numerator over param_scale: the note n
\* is written as n / 127.
ToParam(note) == note

\* Python's round(num / den): to the nearest integer, a half to the even one.
RoundRatio(num, den) ==
    LET q == num \div den
        r == num - q * den
    IN  IF 2 * r < den THEN q
        ELSE IF 2 * r > den THEN q + 1
        ELSE IF q % 2 = 0 THEN q ELSE q + 1

\* round(fx.params[...] * 127)
FromParam(p) == RoundRatio(p * param_scale, param_scale)

\* ----------------------------------------------------------- handlers
\* A handler works on st: the context c of the group operations, the two
\* global lists, last_touched and current_track, and REAPER's tracks,
\* instruments, MIDI sends and selection.
HState ==
    [c |-> Ctx, groups |-> render_groups, samplomatics |-> samplomatics,
     last_touched |-> last_touched, current_track |-> current_track,
     ntracks |-> ntracks, fxs |-> fxs, sends |-> sends,
     selected_tracks |-> selected_tracks]

\* for r in samplomatics: r.widget.destroy()
DestroyAll(srh, ranges) ==
    [s \in SrIds |->
        IF s \in Range(ranges) THEN [srh[s] EXCEPT !.widget = "destroyed"]
        ELSE srh[s]]

\* parse, lines 595-598: the widgets are destroyed and both global lists
\* are set to new empty lists; the objects they held are freed.
Dropped(st) ==
    With(Collect([st.c EXCEPT !.sr = DestroyAll(@, st.samplomatics)],
                 <<>>, <<>>, st.last_touched), LAMBDA h :
    [st EXCEPT !.c = [@ EXCEPT !.sr = h.sr, !.gr = h.gr, !.live = {}],
               !.samplomatics = <<>>,
               !.groups = <<>>])

\* parse, lines 616-620: a range for instrument i of the track.
ParseFx(st, track, i) ==
    LET s == NewRange(st.c.sr)
        fx == st.fxs[track][i]
        c1 == [st.c EXCEPT !.sr[s] =
                  [SamploRange(FromParam(fx.note_start),
                               FromParam(fx.note_end))
                      EXCEPT !.fx = <<track, i>>]]
    IN  With(move_through_groups(c1, st.groups, s), LAMBDA r :
        [st EXCEPT !.c = r.c, !.groups = r.groups,
                   !.samplomatics = Append(@, s)])

\* parse, lines 611-620: the instruments of the track from i on.
RECURSIVE ParseFxs(_, _, _)
ParseFxs(st, track, i) ==
    IF st.c.raised # "" \/ i > Len(st.fxs[track]) THEN st
    ELSE ParseFxs(ParseFx(st, track, i), track, i + 1)

\* parse: the previous ranges are dropped at the top of the recursion, the
\* destinations of the MIDI sends are parsed first, one level deeper, then
\* the track's own instruments.  None has no sends: AttributeError.
RECURSIVE parse(_, _, _)
RECURSIVE ParseSends(_, _, _, _)
\* Mutant of ParseSends: a send costs two levels of the recursion.
RECURSIVE ParseSendsTwoLevels(_, _, _, _)
ParseSendsTwoLevels(st, track, i, recursion_depth) ==
    IF st.c.raised # "" \/ i > Len(sends[track]) THEN st
    ELSE ParseSendsTwoLevels(parse(st, sends[track][i], recursion_depth - 2),
                             track, i + 1, recursion_depth)

ParseSends(st, track, i, recursion_depth) ==
    IF st.c.raised # "" \/ i > Len(sends[track]) THEN st
    ELSE ParseSends(parse(st, sends[track][i], recursion_depth - 1),
                    track, i + 1, recursion_depth)

parse(st, track, recursion_depth) ==
    LET st1 == IF recursion_depth = max_recursion_depth
               THEN Dropped(st)
               ELSE st
    IN  IF recursion_depth = 0 THEN st1
        ELSE IF track = None THEN [st1 EXCEPT !.c.raised = "AttributeError"]
        ELSE ParseFxs(ParseSends(st1, track, 1, recursion_depth), track, 1)

\* setup(track): a new instrument on the track, placed after the last
\* touched range or at the default note; on the current track it gets a
\* range, which becomes the last touched one and joins the render groups.
setup(st, track) ==
    LET note_start == IF st.last_touched # None
                      THEN st.c.sr[st.last_touched].end + 1
                      ELSE default_note
        note_end == note_start
        fx == [note_start |-> ToParam(note_start), note_end |-> ToParam(note_end)]
        st1 == [st EXCEPT !.fxs[track] = Append(@, fx)]
        s == NewRange(st1.c.sr)
        c1 == [st1.c EXCEPT !.sr[s] =
                  [SamploRange(FromParam(fx.note_start),
                               FromParam(fx.note_end))
                      EXCEPT !.fx = <<track, Len(st1.fxs[track])>>]]
    IN  IF track # st.current_track THEN st1
        ELSE With(move_through_groups(c1, st1.groups, s), LAMBDA r :
             [st1 EXCEPT !.c = r.c, !.groups = r.groups,
                         !.samplomatics = Append(@, s),
                         !.last_touched = s])

\* init, lines 503-504: setup for the tracks from tr on that are in the set.
RECURSIVE SetupAll(_, _, _)
SetupAll(st, tracks, tr) ==
    IF st.c.raised # "" \/ tr > MaxTracks THEN st
    ELSE IF tr \in tracks THEN SetupAll(setup(st, tr), tracks, tr + 1)
    ELSE SetupAll(st, tracks, tr + 1)

\* The index of a track after a track was added at the index at.
Shifted(tr, at) == IF tr >= at THEN tr + 1 ELSE tr

\* project.add_track(index): an empty track at the index (tracks are
\* counted from 1 here); the tracks from there on move down by one, and
\* with them what refers to them: the sends to them, the selection, and the
\* script's handles, which are current_track and the track of each range's
\* fx (an instrument is known by its track and its place on it).
add_track(st, at) ==
    [st EXCEPT
        !.ntracks = @ + 1,
        !.fxs = [tr \in DOMAIN st.fxs |->
                    IF tr < at THEN st.fxs[tr]
                    ELSE IF tr = at THEN <<>> ELSE st.fxs[tr - 1]],
        !.sends = [tr \in DOMAIN st.sends |->
                      LET old == IF tr < at THEN st.sends[tr]
                                 ELSE IF tr = at THEN <<>> ELSE st.sends[tr - 1]
                      IN  [i \in 1..Len(old) |-> Shifted(old[i], at)]],
        !.selected_tracks = {Shifted(tr, at) : tr \in st.selected_tracks},
        !.current_track = IF @ = None THEN None ELSE Shifted(@, at),
        !.c.sr = [s \in SrIds |->
                     [st.c.sr[s] EXCEPT !.fx =
                         IF @[1] = 0 THEN @ ELSE <<Shifted(@[1], at), @[2]>>]]]

\* init: without a selection a new track is added, by add_track() as the
\* first track of the project (index 0), and selected.
init(st) ==
    IF st.selected_tracks = {}
    THEN SetupAll([add_track(st, 1) EXCEPT !.selected_tracks = @ \cup {1}],
                  {1}, 1)
    ELSE SetupAll(st, st.selected_tracks, 1)

\* -------------------------------------------------------------- timers
\* root.after(ms, cb).  Every delay of the script is a multiple of 100 ms,
\* so the time a callback has left is kept as due, its whole steps of
\* 100 ms, and frac, the place of the rest among the rests of the pending
\* callbacks: 0 for no rest, then 1, 2, ... for the rests in growing order.
\* A callback registered now has the whole steps of its delay and no rest.
\* Tk runs the callbacks in the order of their due time, and those due at
\* the same time in the order they were registered.
after(queue, steps, cb) ==
    Append(queue, [cb |-> cb, due |-> steps, frac |-> 0])

\* The place of the callback Tk runs next, 0 if none is due.
DueTimer ==
    LET due == {i \in 1..Len(timers) :
                   timers[i].due = 0 /\ timers[i].frac = 0} IN
    IF due = {} THEN 0 ELSE CHOOSE i \in due : \A j \in due : i <= j

WithoutTimer(i) ==
    [j \in 1..(Len(timers) - 1) |-> IF j < i THEN timers[j] ELSE timers[j + 1]]

\* parse_current: with a current track, parse is registered for 100 ms
\* later and the update of the track name for 200 ms later.
parse_current(queue, track) ==
    IF track # None
    THEN after(after(queue, 1, "parse"), 2, "track_name")
    ELSE queue

\* The globals and heaps a handler leaves: st as it ended.
Leave(st) ==
    \E h \in {Collect(st.c, st.groups, st.samplomatics, st.last_touched)} :
        /\ sr' = h.sr
        /\ gr' = h.gr
        /\ render_groups' = h.groups
        /\ samplomatics' = st.samplomatics
        /\ last_touched' = st.last_touched
        /\ raised' = st.c.raised
        /\ current_track' = st.current_track
        /\ ntracks' = st.ntracks
        /\ fxs' = st.fxs
        /\ sends' = st.sends
        /\ selected_tracks' = st.selected_tracks
        /\ UNCHANGED viewVars

\* The queue a moment later, before any callback with a rest has used it
\* up: the callbacks without a rest have one whole step less and the
\* greatest rest.  A handler the user starts runs at such a moment: not at
\* the very moment a callback was registered or is due.
Later(queue) ==
    LET top == CHOOSE f \in {0} \cup {queue[i].frac : i \in 1..Len(queue)} :
                   \A i \in 1..Len(queue) : queue[i].frac <= f
    IN  [i \in 1..Len(queue) |->
            IF queue[i].frac = 0
            THEN [queue[i] EXCEPT !.due = @ - 1, !.frac = top + 1]
            ELSE queue[i]]

\* The queue after time has passed up to the next moment at which a
\* callback has no rest: the least rest of all is used up.
Passed(queue) ==
    LET moved == Later(queue)
        low == CHOOSE f \in {moved[i].frac : i \in 1..Len(queue)} :
                   \A i \in 1..Len(queue) : f <= moved[i].frac
    IN  [i \in 1..Len(queue) |-> [moved[i] EXCEPT !.frac = @ - low]]

\* Time passes, when no callback is due: up to the next moment at which a
\* callback has no rest.
Tick ==
    /\ DueTimer = 0
    /\ timers # <<>>
    /\ timers' = Passed(timers)
    /\ UNCHANGED <<sr, gr, render_groups, samplomatics, raised, current_track,
                   last_touched, freeze, hostVars>>

\* Mutant of CheckSelected: the freeze checkbox is not looked at.
CheckSelectedUnfrozen ==
    /\ DueTimer # 0
    /\ timers[DueTimer].cb = "check_selected"
    /\ LET one == Cardinality(selected_tracks) = 1
           tr == CHOOSE x \in selected_tracks : TRUE
           switch == one /\ current_track # tr
           clear == selected_tracks = {}
           queue == WithoutTimer(DueTimer)
       IN  /\ current_track' = IF clear THEN None
                               ELSE IF switch THEN tr ELSE current_track
           /\ timers' = after(IF switch THEN parse_current(queue, tr) ELSE queue,
                              5, "check_selected")
           /\ sr' = IF clear THEN Collect([Ctx EXCEPT !.sr = DestroyAll(@, samplomatics)],
                                          render_groups, <<>>, last_touched).sr
                    ELSE sr
           /\ samplomatics' = IF clear THEN <<>> ELSE samplomatics
           /\ raised' = ""
           /\ UNCHANGED <<gr, render_groups, last_touched, freeze, hostVars>>

\* check_selected, the poll of REAPER's selection.  Its assignment
\* render_groups = [] binds a local name: the function declares
\* current_track, samplomatics and track_name_text global, not
\* render_groups, so the global list stays as it is.
CheckSelected ==
    /\ DueTimer # 0
    /\ timers[DueTimer].cb = "check_selected"
    /\ LET one == Cardinality(selected_tracks) = 1
           tr == CHOOSE x \in selected_tracks : TRUE
           switch == ~freeze /\ one /\ current_track # tr
           clear == ~freeze /\ selected_tracks = {}
           queue == WithoutTimer(DueTimer)
       IN  /\ current_track' = IF clear THEN None
                               ELSE IF switch THEN tr ELSE current_track
           /\ timers' = after(IF switch THEN parse_current(queue, tr) ELSE queue,
                              5, "check_selected")
           /\ sr' = IF clear THEN Collect([Ctx EXCEPT !.sr = DestroyAll(@, samplomatics)],
                                          render_groups, <<>>, last_touched).sr
                    ELSE sr
           /\ samplomatics' = IF clear THEN <<>> ELSE samplomatics
           /\ raised' = ""
           /\ UNCHANGED <<gr, render_groups, last_touched, freeze, hostVars>>

\* lambda: parse(current_track), registered by parse_current.
ParseTimer ==
    /\ DueTimer # 0
    /\ timers[DueTimer].cb = "parse"
    /\ timers' = WithoutTimer(DueTimer)
    /\ Leave(parse(HState, current_track, max_recursion_depth))
    /\ UNCHANGED freeze

\* lambda: track_name_text.set(current_track.name): None has no name.
TrackNameTimer ==
    /\ DueTimer # 0
    /\ timers[DueTimer].cb = "track_name"
    /\ timers' = WithoutTimer(DueTimer)
    /\ raised' = IF current_track = None THEN "AttributeError" ELSE ""
    /\ UNCHANGED <<sr, gr, render_groups, samplomatics, current_track,
                   last_touched, freeze, hostVars>>

\* The Refresh button and the r key: parse_current.
Refresh ==
    /\ DueTimer = 0
    /\ Cardinality({i \in 1..Len(timers) : timers[i].cb = "parse"}) < MaxPending
    /\ timers' = parse_current(Later(timers), current_track)
    /\ raised' = ""
    /\ UNCHANGED <<sr, gr, render_groups, samplomatics, current_track,
                   last_touched, freeze, hostVars>>

\* The instruments on the tracks 1..tr of the project.
RECURSIVE InstrumentCount(_)
InstrumentCount(tr) ==
    IF tr = 0 THEN 0 ELSE Len(fxs[tr]) + InstrumentCount(tr - 1)

\* The Add button and the a key: init.  The project holds at most MaxTracks
\* tracks and MaxRanges instruments.
AddZone ==
    /\ selected_tracks = {} => ntracks < MaxTracks
    /\ InstrumentCount(MaxTracks) + Cardinality(selected_tracks) <= MaxRanges
    /\ InstrumentCount(MaxTracks) < MaxRanges
    /\ Leave(init(HState))
    /\ UNCHANGED <<freeze, timers>>

\* The Freeze checkbox.
ToggleFreeze ==
    /\ freeze' = ~freeze
    /\ raised' = ""
    /\ UNCHANGED <<sr, gr, render_groups, samplomatics, current_track,
                   last_touched, timers, hostVars>>

\* REAPER: the user selects other tracks.
SelectTracks(tracks) ==
    /\ tracks \subseteq 1..ntracks
    /\ tracks # selected_tracks
    /\ selected_tracks' = tracks
    /\ UNCHANGED <<sr, gr, render_groups, samplomatics, raised, scriptVars,
                   ntracks, fxs, sends, viewVars>>

\* The script starts (guimain, line 879: the poll is registered) in a
\* project of one or two tracks without instruments; with two tracks the
\* first may have a MIDI send to the second.
InitApp ==
    /\ sr = [s \in SrIds |-> NoRange]
    /\ gr = [g \in GrIds |-> SamploGroup]
    /\ render_groups = <<>>
    /\ samplomatics = <<>>
    /\ raised = ""
    /\ current_track = None
    /\ last_touched = None
    /\ freeze = FALSE
    /\ timers = after(<<>>, 5, "check_selected")
    /\ ntracks \in 1..MaxTracks
    /\ fxs = [tr \in Tracks |-> <<>>]
    /\ sends \in {[tr \in Tracks |-> <<>>]} \cup
                 (IF ntracks >= 2 THEN {[tr \in Tracks |-> IF tr = 1 THEN <<2>> ELSE <<>>]}
                  ELSE {})
    /\ selected_tracks = {}
    /\ InitView

NextApp ==
    \/ Tick
    \/ CheckSelected
    \/ ParseTimer
    \/ TrackNameTimer
    \/ Refresh
    \/ AddZone
    \/ ToggleFreeze
    \/ \E tracks \in SUBSET Tracks : SelectTracks(tracks)

SpecApp == InitApp /\ [][NextApp]_vars

\* -------------------------------------------------------------- gestures
\* math.floor(x / width_per_note)
FloorNote(x) == x \div width_per_note

\* c.winfo_width(): the configured width and the highlight border; Tk
\* gives a widget that asks for less than one pixel one pixel.
winfo_width(r) == Max2(1, r.width + 2 * highlight)

\* motion, the handler of <Motion>: the pointer moved over the widget with
\* no button held.
motion(r, event_x) == [r EXCEPT !.mouse_current_x = event_x]

\* mouse, lines 227-241: the first event of a drag fixes what the drag
\* does.  The handle is width_per_note wide, and small_resize_width (a
\* third of the first width_per_note, line 32) on a range of at most three
\* notes; the comparisons are made on three times the pixels.
BeginDrag(r) ==
    LET resize_width3 == IF r.end - r.start <= 2 THEN small_resize_width3
                         ELSE 3 * width_per_note
        mouse_start_x == r.mouse_current_x
    IN  IF r.in_motion THEN r
        ELSE [r EXCEPT !.resize_start_left = r.start,
                       !.in_motion = TRUE,
                       !.resize_side =
                           IF 3 * mouse_start_x >= 3 * winfo_width(r) - resize_width3
                           THEN 1
                           ELSE IF 3 * mouse_start_x < resize_width3 THEN -1
                           ELSE @]

\* Mutant of resize: the moved edge follows the pointer past the other edge.
resizeFree(r, event_x) ==
    LET right == [r EXCEPT !.end = r.start + FloorNote(event_x)]
        x_new == event_x + (r.start - r.resize_start_left) * width_per_note
        left == [r EXCEPT !.start = r.resize_start_left + FloorNote(x_new),
                          !.x = (r.resize_start_left + FloorNote(x_new))
                                    * width_per_note]
        sized == IF r.resize_side > 0 THEN right ELSE left
    IN  [sized EXCEPT !.width = width_per_note * (sized.end - sized.start + 1)
                                    - 2 * highlight]

\* SamploRange.resize: the right edge follows the pointer and stays at or
\* after the start; the left edge follows it and stays at or before the end.
resize(r, event_x) ==
    LET right == [r EXCEPT !.end = r.start + Max2(0, FloorNote(event_x))]
        x_new == event_x + (r.start - r.resize_start_left) * width_per_note
        start_new == Min2(r.end - r.resize_start_left, FloorNote(x_new))
        left == [r EXCEPT !.start = r.resize_start_left + start_new,
                          !.x = (r.resize_start_left + start_new) * width_per_note]
        sized == IF r.resize_side > 0 THEN right ELSE left
    IN  [sized EXCEPT !.width = width_per_note * (sized.end - sized.start + 1)
                                    - 2 * highlight]

\* SamploRange.move: the range follows the pointer by whole notes and keeps
\* its length.
move(r, event_x) ==
    LET x_new == r.x - r.mouse_current_x + event_x
        note_set == RoundRatio(x_new, width_per_note)
        note_diff == r.end - r.start
    IN  [r EXCEPT !.start = note_set, !.end = note_set + note_diff,
                  !.x = note_set * width_per_note]

\* The fields of the range after lines 223-246 of mouse.
Dragged(r, event_x) ==
    IF BeginDrag(r).resize_side # 0 THEN resize(BeginDrag(r), event_x)
    ELSE move(BeginDrag(r), event_x)

\* SamploRange.mouse, the handler of <B1-Motion>: the range is resized or
\* moved, and when its start or end changed it goes through the groups.
mouse(st, s, event_x) ==
    LET r == Dragged(st.c.sr[s], event_x)
        c1 == [st.c EXCEPT !.sr[s] = r]
    IN  IF r.start # st.c.sr[s].start \/ r.end # st.c.sr[s].end
        THEN With(move_through_groups(c1, st.groups, s), LAMBDA m :
                  [st EXCEPT !.c = m.c, !.groups = m.groups])
        ELSE [st EXCEPT !.c = c1]

\* SamploRange.update_reaper: the note range is written to the instrument.
update_reaper(host, r) ==
    [host EXCEPT ![r.fx[1]][r.fx[2]] =
        [note_start |-> ToParam(r.start), note_end |-> ToParam(r.end)]]

\* Mutant of button_release: resize_side is left as the drag set it.
button_release_keeps_side(st, s) ==
    [st EXCEPT !.c.sr[s].in_motion = FALSE,
               !.c.sr[s].resize_start_left = 0,
               !.fxs = update_reaper(@, st.c.sr[s]),
               !.last_touched = s]

\* SamploRange.button_release, the handler of <ButtonRelease-1>.
button_release(st, s) ==
    [st EXCEPT !.c.sr[s].in_motion = FALSE,
               !.c.sr[s].resize_side = 0,
               !.c.sr[s].resize_start_left = 0,
               !.fxs = update_reaper(@, st.c.sr[s]),
               !.last_touched = s]

\* The notes a drag is followed to: those of the model and MaxOutside
\* notes below the first note of the axis.
DragNotes == (0 - MaxOutside)..MaxNote

\* event.x of the drag events: the pointer, relative to the widget's left
\* edge, left of the widget, on its first note, and right of it.
EventXs == {-30, -10, 0, 10, 30}

\* The places of the pointer over a widget before the button is pressed:
\* on the left handle, in the middle of the first note, on the right
\* handle, as far as the widget is wide enough to have them.
HoverXs(r) ==
    {Min2(3, winfo_width(r) - 1), Min2(10, winfo_width(r) - 1),
     Max2(0, winfo_width(r) - 3)}

\* The widget of s takes mouse events: s is live and no other widget holds
\* the pointer for a drag.
TakesMouse(s) ==
    /\ s \in Range(samplomatics)
    /\ \A t \in Range(samplomatics) : t # s => ~sr[t].in_motion

Motion(s, event_x) ==
    /\ TakesMouse(s)
    /\ ~sr[s].in_motion
    /\ event_x \in HoverXs(sr[s])
    /\ sr' = [sr EXCEPT ![s] = motion(@, event_x)]
    /\ UNCHANGED <<gr, render_groups, samplomatics, raised, scriptVars,
                   hostVars>>

B1Motion(s, event_x) ==
    /\ TakesMouse(s)
    /\ Dragged(sr[s], event_x).start \in DragNotes
    /\ Dragged(sr[s], event_x).end \in DragNotes
    /\ Leave(mouse(HState, s, event_x))
    /\ UNCHANGED <<freeze, timers>>

ButtonRelease(s) ==
    /\ TakesMouse(s)
    /\ Leave(button_release(HState, s))
    /\ UNCHANGED <<freeze, timers>>

\* lambda: parse(current_track), the callback the Refresh button and the r
\* key register, runs.
Rescan ==
    /\ Leave(parse(HState, current_track, max_recursion_depth))
    /\ UNCHANGED <<freeze, timers>>

\* An editing session: the script shows the one track of the project, which
\* holds up to MaxZones instruments with any note ranges REAPER can hold,
\* and has not parsed it yet.
InitEdit ==
    /\ sr = [s \in SrIds |-> NoRange]
    /\ gr = [g \in GrIds |-> SamploGroup]
    /\ render_groups = <<>>
    /\ samplomatics = <<>>
    /\ raised = ""
    /\ current_track = 1
    /\ last_touched = None
    /\ freeze = FALSE
    /\ timers = <<>>
    /\ ntracks = 1
    /\ \E n \in 0..MaxZones :
          fxs \in [Tracks ->
                     [1..n -> [note_start : Notes, note_end : Notes]] \cup {<<>>}]
    /\ \A tr \in Tracks : tr # 1 => fxs[tr] = <<>>
    /\ sends = [tr \in Tracks |-> <<>>]
    /\ selected_tracks = {1}
    /\ InitView

NextEdit ==
    \/ Rescan
    \/ InstrumentCount(MaxTracks) < MaxZones /\ AddZone
    \/ \E s \in SrIds : \E x \in HoverXs(sr[s]) : Motion(s, x)
    \/ \E s \in SrIds, x \in EventXs : B1Motion(s, x)
    \/ \E s \in SrIds : ButtonRelease(s)

SpecEdit == InitEdit /\ [][NextEdit]_vars

\* A session on a track that holds up to MaxRanges instruments with any note
\* ranges REAPER can hold, start above end among them: the track is parsed,
\* the pointer hovers over a widget, and a range is dragged with the button
\* held.
InitHost ==
    /\ sr = [s \in SrIds |-> NoRange]
    /\ gr = [g \in GrIds |-> SamploGroup]
    /\ render_groups = <<>>
    /\ samplomatics = <<>>
    /\ raised = ""
    /\ current_track = 1
    /\ last_touched = None
    /\ freeze = FALSE
    /\ timers = <<>>
    /\ ntracks = 1
    /\ \E n \in 0..MaxRanges :
          fxs \in [Tracks ->
                     [1..n -> [note_start : Notes, note_end : Notes]] \cup {<<>>}]
    /\ \A tr \in Tracks : tr # 1 => fxs[tr] = <<>>
    /\ sends = [tr \in Tracks |-> <<>>]
    /\ selected_tracks = {1}
    /\ InitView

NextHost ==
    \/ Rescan
    \/ \E s \in SrIds : \E x \in HoverXs(sr[s]) : Motion(s, x)
    \/ \E s \in SrIds, x \in EventXs : B1Motion(s, x)

SpecHost == InitHost /\ [][NextHost]_vars

\* ----------------------------------------------------------- send graphs
\* The number of ranges parse(track, recursion_depth) creates: one for each
\* instrument of each track it visits, as often as it visits the track.
RECURSIVE RangesParsed(_, _)
RECURSIVE RangesParsedSends(_, _, _)
RangesParsedSends(track, i, recursion_depth) ==
    IF i > Len(sends[track]) THEN 0
    ELSE RangesParsed(sends[track][i], recursion_depth - 1)
             + RangesParsedSends(track, i + 1, recursion_depth)

RangesParsed(track, recursion_depth) ==
    IF recursion_depth = 0 THEN 0
    ELSE RangesParsedSends(track, 1, recursion_depth) + Len(fxs[track])

\* lambda: parse(current_track) runs in a project with MIDI sends; a rescan
\* that creates more than MaxParsed ranges is not followed.
RescanSends ==
    /\ RangesParsed(current_track, max_recursion_depth) <= MaxParsed
    /\ Rescan

\* A project of MaxTracks tracks, any of them the current track; a track
\* has no instrument or one, with any note range start <= end, and no MIDI
\* send or one to another track, so that the sends may form a cycle.  The
\* script has not parsed the track yet.
InitSends ==
    /\ sr = [s \in SrIds |-> NoRange]
    /\ gr = [g \in GrIds |-> SamploGroup]
    /\ render_groups = <<>>
    /\ samplomatics = <<>>
    /\ raised = ""
    /\ current_track \in Tracks
    /\ last_touched = None
    /\ freeze = FALSE
    /\ timers = <<>>
    /\ ntracks = MaxTracks
    /\ fxs \in [Tracks ->
                 {<<>>} \cup {<<[note_start |-> a, note_end |-> b]>> :
                                 a \in Notes, b \in Notes}]
    /\ \A tr \in Tracks : \A i \in 1..Len(fxs[tr]) :
          fxs[tr][i].note_start <= fxs[tr][i].note_end
    /\ sends \in [Tracks -> {<<>>} \cup {<<d>> : d \in Tracks}]
    /\ \A tr \in Tracks : \A i \in 1..Len(sends[tr]) : sends[tr][i] # tr
    /\ selected_tracks = {current_track}
    /\ InitView

NextSends == RescanSends

SpecSends == InitSends /\ [][NextSends]_vars

\* -------------------------------------------------------------- separate
\* The places a project has for tracks when instruments are separated.
TrackSlots == 1..(MaxTracks + MaxSeparated)

\* Mutant of add_send: no send is made.
add_send_none(h, track, dest) == h

\* track.add_send(dest)
add_send(h, track, dest) == [h EXCEPT !.sends[track] = Append(@, dest)]

\* fx.move_to_track(track_new) for the first instrument of the track: it
\* leaves the track and is the first instrument of the new one.
move_to_track(h, track, dest) ==
    [h EXCEPT !.fxs[track] = Tail(h.fxs[track]),
              !.fxs[dest] = <<Head(h.fxs[track])>> \o h.fxs[dest]]

\* separate_next_samplomatic, for a track that has an instrument: a new
\* track after the track (after the bus, when there is one), a send to it,
\* its selection when a bus is made, and the instrument moved to it.
separate_next_samplomatic(h, track, bus) ==
    LET at == track + (IF bus THEN 2 ELSE 1)
        h1 == add_send(add_track(h, at), track, at)
        h2 == IF bus THEN [h1 EXCEPT !.selected_tracks = @ \cup {at}] ELSE h1
    IN  move_to_track(h2, track, at)

\* while separate_next_samplomatic(current_track, bus): pass
RECURSIVE SeparateLoop(_, _, _)
SeparateLoop(h, track, bus) ==
    IF h.fxs[track] = <<>> THEN h
    ELSE SeparateLoop(separate_next_samplomatic(h, track, bus), track, bus)

\* separate_samplomatics up to its call of parse_current, with the value of
\* the "create bus" checkbox.  With a bus the selection is cleared and the
\* bus added and selected first; after the loop the folder is made and the
\* selection set to the track, unless the folder action fails (sws).
\* Without a current track the selection is cleared, when a bus is asked
\* for, and then None has no index and no instruments: AttributeError.
separate_samplomatics(h, track, bus, sws) ==
    LET h0 == IF bus THEN [h EXCEPT !.selected_tracks = {}] ELSE h
        h1 == IF bus
              THEN [add_track(h0, track + 1)
                       EXCEPT !.selected_tracks = @ \cup {track + 1}]
              ELSE h
        h2 == SeparateLoop(h1, track, bus)
    IN  IF track = None THEN [h0 EXCEPT !.c.raised = "AttributeError"]
        ELSE IF bus /\ sws THEN [h2 EXCEPT !.selected_tracks = {track}]
        ELSE h2

\* The Separate button and the s key: separate.  Without a current track
\* nothing is registered.
Separate ==
    /\ Cardinality({i \in 1..Len(timers) :
                       timers[i].cb = "separate_samplomatics"}) < MaxPending
    /\ DueTimer = 0
    /\ timers' = IF current_track # None
                 THEN after(Later(timers), 1, "separate_samplomatics")
                 ELSE Later(timers)
    /\ raised' = ""
    /\ UNCHANGED <<sr, gr, render_groups, samplomatics, current_track,
                   last_touched, freeze, hostVars>>

\* separate_samplomatics, registered by separate, runs and ends with
\* parse_current.  A project that would get more than
\* MaxTracks + MaxSeparated tracks is not followed.
SeparateTimer(bus, sws) ==
    /\ DueTimer # 0
    /\ timers[DueTimer].cb = "separate_samplomatics"
    /\ current_track # None =>
          ntracks + Len(fxs[current_track]) + (IF bus THEN 1 ELSE 0)
              <= MaxTracks + MaxSeparated
    /\ Leave(separate_samplomatics(HState, current_track, bus, sws))
    /\ timers' = (IF current_track = None THEN WithoutTimer(DueTimer)
                  ELSE parse_current(WithoutTimer(DueTimer), current_track))
    /\ UNCHANGED freeze

\* The script starts (guimain, line 879: the poll is registered) in a
\* project of up to MaxTracks tracks; one of them is selected and holds up
\* to MaxZones instruments, each of one note and one note after the other,
\* as Add places them; the first track may have a MIDI send to the second.
InitSeparate ==
    /\ sr = [s \in SrIds |-> NoRange]
    /\ gr = [g \in GrIds |-> SamploGroup]
    /\ render_groups = <<>>
    /\ samplomatics = <<>>
    /\ raised = ""
    /\ ntracks \in 1..MaxTracks
    /\ current_track = None
    /\ last_touched = None
    /\ freeze = FALSE
    /\ timers = after(<<>>, 5, "check_selected")
    /\ \E tr0 \in 1..ntracks :
          /\ selected_tracks = {tr0}
          /\ \E n \in 0..MaxZones :
                fxs = [tr \in TrackSlots |->
                          IF tr = tr0
                          THEN [i \in 1..n |-> [note_start |-> ToParam(i - 1),
                                                note_end |-> ToParam(i - 1)]]
                          ELSE <<>>]
    /\ sends \in {[tr \in TrackSlots |-> <<>>]} \cup
                 (IF ntracks >= 2
                  THEN {[tr \in TrackSlots |-> IF tr = 1 THEN <<2>> ELSE <<>>]}
                  ELSE {})
    /\ InitView

NextSeparate ==
    \/ Tick
    \/ CheckSelected
    \/ Separate
    \/ \E bus \in BOOLEAN, sws \in BOOLEAN : SeparateTimer(bus, sws)
    \/ ParseTimer
    \/ TrackNameTimer
    \/ \E tracks \in SUBSET TrackSlots :
          Cardinality(tracks) <= MaxSelected /\ SelectTracks(tracks)

SpecSeparate == InitSeparate /\ [][NextSeparate]_vars

\* ------------------------------------------------------- claim vocabulary
\* These definitions state the properties; they are written from what the
\* properties say, not from the operators above.

Tracked == Range(samplomatics)

\* The group object at place k of the global list.
GroupAt(k) == gr[render_groups[k]]

Count(seq, x) == Cardinality({i \in 1..Len(seq) : seq[i] = x})

\* Two closed note ranges have a note in common.
Overlap(a, b) == a.end >= b.start /\ b.end >= a.start

\* The places of the global list whose group has s as a member.
PlacesOf(s) == {k \in 1..Len(render_groups) : Count(GroupAt(k).sranges, s) > 0}

\* The members reachable from the set by chains of overlapping members.
RECURSIVE Reach(_, _)
Reach(set, all) ==
    LET next == set \cup {t \in all : \E u \in set : Overlap(sr[u], sr[t])} IN
    IF next = set THEN set ELSE Reach(next, all)

Connected(ids) == ids = {} \/ Reach({CHOOSE x \in ids : TRUE}, ids) = ids

\* The overlap depth by a sweep: the most members that contain one note.
\* The depth is reached at the start of some member.
Depth(ids) ==
    LET At(p) == Cardinality({s \in ids : sr[s].start <= p /\ p <= sr[s].end})
        best == CHOOSE p \in {sr[s].start : s \in ids} :
                    \A q \in {sr[s].start : s \in ids} : At(q) <= At(p)
    IN  At(best)

\* The groups whose layers the layering claims look at: the groups of the
\* global list, and all the tracked ranges put into one group and layered
\* (any list of ranges, overlapping or not).
AllTogether ==
    create_layers([SamploGroup EXCEPT !.sranges = samplomatics], sr)

LayeredGroups ==
    {GroupAt(k) : k \in 1..Len(render_groups)} \cup
    (IF samplomatics = <<>> THEN {} ELSE {AllTogether})

\* The places of the layers of g that hold s, as <<layer, place>>.
SlotsOf(g, s) ==
    {<<n, i>> \in (1..Len(g.layers)) \X (1..Len(g.sranges)) :
        i <= Len(g.layers[n]) /\ g.layers[n][i] = s}

\* ------------------------------------------------------------------ C1
\* C1: every tracked range is a member of exactly one group of
\* render_groups, once, and no two groups of render_groups have
\* overlapping aggregate bounds.
C1_Partition ==
    /\ \A s \in Tracked :
          /\ Cardinality(PlacesOf(s)) = 1
          /\ \A k \in PlacesOf(s) : Count(GroupAt(k).sranges, s) = 1
    /\ \A j, k \in 1..Len(render_groups) :
          j # k => ~Overlap(GroupAt(j), GroupAt(k))

\* A group of two members beside another group: a range joined a group or
\* two groups were merged, and the bounds still keep the groups apart.
C1_Witness ==
    /\ Len(render_groups) = 2
    /\ \E k \in 1..2 : Len(GroupAt(k).sranges) = 2
    /\ Len(samplomatics) = 3

\* ------------------------------------------------------------------ C2
\* C2: the members of every group of render_groups are linked by chains of
\* overlapping members.
C2_Connectivity ==
    \A k \in 1..Len(render_groups) : Connected(Range(GroupAt(k).sranges))

\* A group was split: two groups whose ranges do not overlap, and a third
\* range that used to bridge them now apart in a group of its own.
C2_Witness ==
    /\ Len(render_groups) = 3
    /\ raised = ""
    /\ \E s \in Tracked : sr[s].start = MaxNote /\ sr[s].end = MaxNote
    /\ \E s \in Tracked : sr[s].start = 0 /\ sr[s].end = 0


\* ------------------------------------------------------------------ C3
\* C3: after create_layers every member of a group is in exactly one layer,
\* once, and no two ranges of one layer overlap: one ends before the other
\* starts.
C3_LayerCorrect ==
    \A g \in LayeredGroups :
        /\ g.layered
        /\ \A s \in Range(g.sranges) : Cardinality(SlotsOf(g, s)) = 1
        /\ \A n \in 1..Len(g.layers) :
              /\ Range(g.layers[n]) \subseteq Range(g.sranges)
              /\ \A i, j \in 1..Len(g.layers[n]) :
                    i # j => \/ sr[g.layers[n][i]].end < sr[g.layers[n][j]].start
                             \/ sr[g.layers[n][j]].end < sr[g.layers[n][i]].start

\* A group of the list with a layer of two ranges and a second layer.
C3_Witness ==
    \E k \in 1..Len(render_groups) :
        /\ Len(GroupAt(k).layers) = 2
        /\ Len(GroupAt(k).layers[1]) = 2
        /\ Len(GroupAt(k).layers[2]) = 1

\* ------------------------------------------------------------------ C4
\* C4: the number of layers create_layers makes for a group of ranges with
\* start <= end is the overlap depth of its members.
C4_LayerMinimal ==
    \A g \in LayeredGroups :
        (\A s \in Range(g.sranges) : sr[s].start <= sr[s].end)
            => Len(g.layers) = Depth(Range(g.sranges))

\* Three ranges, two layers: the depth is less than the number of members,
\* and more than one.
C4_Witness ==
    /\ Len(samplomatics) = 3
    /\ Len(AllTogether.layers) = 2
    /\ Depth(Tracked) = 2
    /\ \E k \in 1..Len(render_groups) : Len(GroupAt(k).layers) = 2

\* ------------------------------------------------------------------ C5
\* C5: when a call of move_through_groups has returned, every tracked
\* range has the layer count of its group, its layer is the index of the
\* layer that holds it, and the layers of its group are what create_layers
\* makes of the group's members and bounds as they are now.
C5_LayersFresh ==
    raised = "" =>
        \A s \in Tracked :
            LET g == sr[s].render_group IN
            /\ g \in Range(render_groups)
            /\ gr[g].layered
            /\ sr[s].layer_count = Len(gr[g].layers)
            /\ 0 <= sr[s].layer /\ sr[s].layer < sr[s].layer_count
            /\ s \in Range(gr[g].layers[sr[s].layer + 1])
            /\ gr[g].layers = create_layers(gr[g], sr).layers

\* Ranges on different layers, with different layer counts in two groups.
C5_Witness ==
    /\ raised = ""
    /\ \E s, t \in Tracked : sr[s].layer = 1 /\ sr[s].layer_count = 2
                             /\ sr[t].layer = 0 /\ sr[t].layer_count = 1


\* ------------------------------------------------------------------ C6
\* The step the adjacency claim is about: the list holds one group, whose
\* only member is a, and the untracked range b is inserted.
InsertBeside(a, b) ==
    /\ Len(render_groups) = 1
    /\ GroupAt(1).sranges = <<a>>
    /\ samplomatics = <<a>>
    /\ samplomatics' = <<a, b>>

\* C6 as stated: a range b that only touches a (a.end = b.start) does not
\* overlap it: inserted beside a, it gets a group of its own.
C6_OpenAdjacency ==
    [][\A a, b \in SrIds :
         (InsertBeside(a, b) /\ sr[a].end = sr'[b].start)
             => sr'[b].render_group # sr'[a].render_group]_vars

\* C6 amended: ranges are closed, a range b that touches a at one note
\* overlaps it.  Inserted beside a, b joins a's group exactly when the two
\* have a note in common (a.end >= b.start and b.end >= a.start), which
\* includes a.end = b.start, and they then lie on different layers; b gets a
\* group of its own only when one ends before the other starts.
C6_ClosedAdjacency ==
    [][\A a, b \in SrIds :
         InsertBeside(a, b) =>
             /\ (sr'[b].render_group = sr'[a].render_group)
                    <=> Overlap(sr[a], sr'[b])
             /\ sr[a].end = sr'[b].start =>
                    /\ sr'[b].render_group = sr'[a].render_group
                    /\ Len(render_groups') = 1
                    /\ sr'[b].layer # sr'[a].layer]_vars

\* Two ranges that share one note only, a's last and b's first, inserted in
\* this order, in one group.
C6_Witness ==
    /\ Len(samplomatics) = 2
    /\ LET a == samplomatics[1]
           b == samplomatics[2]
       IN  /\ sr[a].start < sr[a].end
           /\ sr[a].end = sr[b].start
           /\ sr[b].start < sr[b].end
           /\ sr[a].render_group = sr[b].render_group
           /\ Len(render_groups) = 1

\* ------------------------------------------------------------------ C7
\* C7: intersect(x) is true exactly when x.end >= start and end >= x.start
\* of the group, for the bounds of every group and range; and the layering
\* follows the same convention: a range comes after another in a layer only
\* if it starts strictly after the other's end.
C7_OverlapTest ==
    /\ \A k \in 1..Len(render_groups) : \A s \in Tracked :
          intersect(GroupAt(k), sr[s])
              <=> (sr[s].end >= GroupAt(k).start /\ GroupAt(k).end >= sr[s].start)
    /\ \A s, t \in Tracked :
          intersect(sr[s], sr[t])
              <=> (sr[t].end >= sr[s].start /\ sr[s].end >= sr[t].start)
    /\ \A g \in LayeredGroups : \A n \in 1..Len(g.layers) :
          \A i \in 1..(Len(g.layers[n]) - 1) :
              sr[g.layers[n][i + 1]].start > sr[g.layers[n][i]].end

\* Two ranges that touch at one note: the test says they intersect, they
\* are in one group and on different layers; a third range shares a layer.
C7_Witness ==
    \E s, t, u \in Tracked :
        /\ s # t /\ sr[s].end = sr[t].start /\ sr[s].start < sr[t].start
        /\ intersect(sr[s], sr[t])
        /\ sr[s].render_group = sr[t].render_group
        /\ sr[s].layer # sr[t].layer
        /\ u # s /\ sr[u].render_group = sr[s].render_group
        /\ sr[u].layer = sr[s].layer

\* ------------------------------------------------------------------ C8
\* C8: when a call of move_through_groups has returned, the bounds of every
\* group of render_groups are the least start and the greatest end of its
\* members.
C8_BoundsCoherent ==
    \A k \in 1..Len(render_groups) :
        LET g == GroupAt(k)
            m == Range(g.sranges)
        IN  /\ m # {}
            /\ \A s \in m : g.start <= sr[s].start /\ sr[s].end <= g.end
            /\ \E s \in m : g.start = sr[s].start
            /\ \E s \in m : g.end = sr[s].end

\* A group of two members that ends later than one of them, beside a
\* second group.
C8_Witness ==
    /\ Len(render_groups) = 2
    /\ \E k \in 1..2 :
          /\ Len(GroupAt(k).sranges) = 2
          /\ \E s \in Range(GroupAt(k).sranges) : sr[s].end < GroupAt(k).end

\* ------------------------------------------------------------------ C9
\* The ranges the groups of the global list render_groups hold.
GroupedRanges ==
    UNION {Range(GroupAt(k).sranges) : k \in 1..Len(render_groups)}

\* C9: whatever parses, added zones and polls of the selection (a poll that
\* finds no track selected included) have happened, the ranges held by the
\* groups of render_groups are exactly the ranges of samplomatics; no group
\* keeps a range of a track that was parsed or deselected before.
C9_RescanRebuilds == GroupedRanges = Tracked

\* ----------------------------------------------------------------- C10
\* The step the claim is about: move_through_groups is called for a range
\* no group tracks, the new last element of samplomatics.
UntrackedCall == Len(samplomatics') = Len(samplomatics) + 1

\* C10 as stated: the call for an untracked range signals an error, leaves
\* the group list as it was, and gives the range no group.
C10_UnknownSignalled ==
    [][UntrackedCall =>
          /\ raised' # ""
          /\ render_groups' = render_groups
          /\ gr' = gr
          /\ sr'[samplomatics'[Len(samplomatics')]].render_group = None]_vars

\* C10 amended: the call for a range no group tracks (render_group is None)
\* raises nothing and inserts the range: when it returns, the range is a
\* member of exactly one group of the list, once, and its render_group is
\* that group.
C10_UntrackedInserted ==
    [][UntrackedCall =>
          LET b == samplomatics'[Len(samplomatics')]
              at == {k \in 1..Len(render_groups') :
                        Count(gr'[render_groups'[k]].sranges, b) > 0}
          IN  /\ raised' = ""
              /\ Cardinality(at) = 1
              /\ \A k \in at :
                    /\ Count(gr'[render_groups'[k]].sranges, b) = 1
                    /\ sr'[b].render_group = render_groups'[k]]_vars

\* The first range was inserted into the empty list: one group holds it.
C10_Witness ==
    /\ Len(samplomatics) = 1
    /\ Len(render_groups) = 1
    /\ GroupAt(1).sranges = samplomatics
    /\ raised = ""

\* ----------------------------------------------------------------- C13
\* The range s is the only member of its group.
AloneInGroup(s) ==
    /\ s \in Tracked
    /\ sr[s].render_group # None
    /\ gr[sr[s].render_group].sranges = <<s>>

\* C13: when a call of move_through_groups has returned, no group of
\* render_groups has an empty member list; and a call that moves the only
\* member of a group leaves no group behind for it: the list does not grow.
C13_NoEmptyGroups ==
    [][/\ \A k \in 1..Len(render_groups') :
             gr'[render_groups'[k]].sranges # <<>>
       /\ \A s \in SrIds :
             (AloneInGroup(s) /\ samplomatics' = samplomatics
                  /\ (sr'[s].start # sr[s].start \/ sr'[s].end # sr[s].end))
                 => Len(render_groups') <= Len(render_groups)]_vars

\* The first range is alone in the last group of the list, behind the
\* group of the second range: it was moved away and got a new group.
C13_Witness ==
    /\ Len(samplomatics) = 2
    /\ Len(render_groups) = 2
    /\ GroupAt(1).sranges = <<samplomatics[2]>>
    /\ GroupAt(2).sranges = <<samplomatics[1]>>
    /\ raised = ""

\* ----------------------------------------------------------------- C14
\* The other members of the group of s.
GroupMates(s) == Range(gr[sr[s].render_group].sranges) \ {s}

\* What lines 416-434 of move_through_groups leave when s is taken out of
\* its group: r is the context and the list, parts are the places of the
\* list whose group holds a former group mate of s.
PartsAfterLeave(r, s) ==
    {k \in 1..Len(r.groups) :
        Range(r.c.gr[r.groups[k]].sranges) \cap GroupMates(s) # {}}

\* C14: when a range s leaves a group that has other members, the list
\* holds exactly one group per overlap-connected component of the members
\* that stay: the groups that hold them hold nothing else, each is
\* connected, members of different groups do not overlap, and each group
\* and its members carry the layers create_layers computes for it.  The
\* other groups of the list stay as they are.
C14_SplitOnRemoval ==
    \A s \in Tracked :
        (raised = "" /\ GroupMates(s) # {}) =>
        With(LeaveGroup(Ctx, render_groups, s), LAMBDA r :
        LET parts == PartsAfterLeave(r, s)
            Members(k) == Range(r.c.gr[r.groups[k]].sranges)
        IN  /\ r.c.raised = ""
            /\ UNION {Members(k) : k \in parts} = GroupMates(s)
            /\ \A k \in parts :
                  LET g == r.c.gr[r.groups[k]] IN
                  /\ Connected(Members(k))
                  /\ g.layered
                  /\ g.layers = create_layers(g, r.c.sr).layers
                  /\ \A m \in Members(k) :
                        /\ r.c.sr[m].render_group = r.groups[k]
                        /\ r.c.sr[m].layer_count = Len(g.layers)
                        /\ m \in Range(g.layers[r.c.sr[m].layer + 1])
            /\ \A j, k \in parts :
                  j # k => \A m \in Members(j), n \in Members(k) :
                               ~Overlap(sr[m], sr[n])
            /\ \A k \in 1..Len(render_groups) :
                  render_groups[k] # sr[s].render_group =>
                      /\ render_groups[k] \in Range(r.groups)
                      /\ r.c.gr[render_groups[k]] = gr[render_groups[k]])

\* A chain of three ranges in one group whose middle range bridges two
\* ranges that do not overlap: when it leaves, two groups of one member
\* take the place of the group.
C14_Witness ==
    /\ raised = ""
    /\ Len(render_groups) = 1
    /\ \E s \in Tracked :
          /\ Cardinality(GroupMates(s)) = 2
          /\ \A m, n \in GroupMates(s) : m # n => ~Overlap(sr[m], sr[n])
          /\ LET r == LeaveGroup(Ctx, render_groups, s) IN
             /\ Len(r.groups) = 2
             /\ \A k \in 1..2 : Len(r.c.gr[r.groups[k]].sranges) = 1

\* ----------------------------------------------------------------- C15
\* The step the claim is about: the untracked range b, the new last element
\* of samplomatics, is inserted and its bounds overlap the bounds of no
\* group of the list (there may be none).
InsertApart(b) ==
    /\ UntrackedCall
    /\ b = samplomatics'[Len(samplomatics')]
    /\ \A k \in 1..Len(render_groups) : ~Overlap(GroupAt(k), sr'[b])

\* C15: such an insertion raises nothing and appends exactly one group,
\* whose only member is b, with one layer that holds b; b has layer 0 of 1;
\* every group that was in the list stays at its place with the same
\* members, bounds and layers, and its members keep their layer data.
C15_InsertApart ==
    [][\A b \in SrIds : InsertApart(b) =>
          LET n == Len(render_groups) IN
          /\ raised' = ""
          /\ Len(render_groups') = n + 1
          /\ gr'[render_groups'[n + 1]].sranges = <<b>>
          /\ gr'[render_groups'[n + 1]].layers = <<<<b>>>>
          /\ gr'[render_groups'[n + 1]].start = sr'[b].start
          /\ gr'[render_groups'[n + 1]].end = sr'[b].end
          /\ sr'[b].render_group = render_groups'[n + 1]
          /\ sr'[b].layer = 0
          /\ sr'[b].layer_count = 1
          /\ \A k \in 1..n : gr'[render_groups'[k]] = GroupAt(k)
          /\ \A s \in Tracked : sr'[s] = sr[s]]_vars

\* Two ranges apart, each the only member of a group, on layer 0 of 1, in
\* the order they were inserted.
C15_Witness ==
    /\ Len(samplomatics) = 2
    /\ Len(render_groups) = 2
    /\ raised = ""
    /\ \A k \in 1..2 :
          /\ GroupAt(k).sranges = <<samplomatics[k]>>
          /\ sr[samplomatics[k]].layer = 0
          /\ sr[samplomatics[k]].layer_count = 1
    /\ sr[samplomatics[1]].end < sr[samplomatics[2]].start

\* ----------------------------------------------------------------- C16
\* The range s came before the range t: samplomatics holds the ranges in
\* the order they were created and inserted.
ArrivedBefore(s, t) ==
    \E i, j \in 1..Len(samplomatics) :
        i < j /\ samplomatics[i] = s /\ samplomatics[j] = t

\* C16: of two members of a group with the same start, the one that was
\* inserted earlier has the lower layer index, also after later updates of
\* either of them.
C16_ArrivalOrder ==
    raised = "" =>
        \A s, t \in Tracked :
            (/\ ArrivedBefore(s, t)
             /\ sr[s].render_group = sr[t].render_group
             /\ sr[s].start = sr[t].start)
                => sr[s].layer < sr[t].layer

\* ----------------------------------------------------------------- C18
\* C18: create_layers applied to what create_layers made of a group, its
\* members and bounds unchanged, yields the same member list and the same
\* list of layers; update_srange_layers applied twice to a group of the
\* list leaves every range and group as the first call left them.
C18_RelayerIdempotent ==
    /\ \A g \in LayeredGroups :
          create_layers(create_layers(g, sr), sr) = create_layers(g, sr)
    /\ \A k \in 1..Len(render_groups) :
          With(update_srange_layers(Ctx, render_groups[k]), LAMBDA c1 :
              /\ update_srange_layers(c1, render_groups[k]) = c1
              /\ \A s \in Range(c1.gr[render_groups[k]].sranges) :
                    /\ c1.sr[s].layer = sr[s].layer
                    /\ c1.sr[s].layer_count = sr[s].layer_count)

\* Three ranges whose order of arrival is not the order of their starts,
\* two of them with the same start: layered as one group they need the
\* sort and the tie-break, and a second layering changes nothing.
C18_Witness ==
    /\ Len(samplomatics) = 3
    /\ raised = ""
    /\ sr[samplomatics[1]].start > sr[samplomatics[2]].start
    /\ sr[samplomatics[2]].start = sr[samplomatics[3]].start
    /\ Len(AllTogether.layers) >= 2
    /\ AllTogether.sranges # samplomatics
    /\ create_layers(AllTogether, sr) = AllTogether
    /\ \E k \in 1..Len(render_groups) : Len(GroupAt(k).sranges) >= 2

\* ----------------------------------------------------------------- C17
\* The height available for drawing, below the piano roll.
DrawingHeight == window_height - piano_roll_height

\* The row of layer k (from 0) of a group, as the widget of the first range
\* of the layer has it: its top, and its height before the highlight border
\* is taken off.
RowTop(g, k) == sr[g.layers[k + 1][1]].y

RowHeight(g, k) == sr[g.layers[k + 1][1]].height + 2 * highlight

\* C17: for a group of L layers drawn in the height H, the rows of the
\* layers 0..L-2 are H \div L high and the last row is
\* H - (L-1) * (H \div L) high; row k starts at k * (H \div L); so the first
\* row starts at 0, each row starts where the row before ends, and the last
\* row ends at H: the heights add up to H.  Every range of a layer has the
\* row of its layer.
C17_RowsFillHeight ==
    raised = "" =>
        \A n \in 1..Len(render_groups) :
            LET g == GroupAt(n)
                L == Len(g.layers)
                H == DrawingHeight
            IN  /\ L >= 1
                /\ \A k \in 0..(L - 1) :
                      /\ RowTop(g, k) = k * (H \div L)
                      /\ RowHeight(g, k) =
                            IF k < L - 1 THEN H \div L
                            ELSE H - (L - 1) * (H \div L)
                      /\ \A s \in Range(g.layers[k + 1]) :
                            /\ sr[s].y = RowTop(g, k)
                            /\ sr[s].height + 2 * highlight = RowHeight(g, k)
                /\ RowTop(g, 0) = 0
                /\ \A k \in 0..(L - 2) :
                      RowTop(g, k + 1) = RowTop(g, k) + RowHeight(g, k)
                /\ RowTop(g, L - 1) + RowHeight(g, L - 1) = H

\* A group of three layers in a height that three does not divide: the
\* last row is higher than the others.
C17_Witness ==
    /\ raised = ""
    /\ DrawingHeight = MaxHeight
    /\ \E n \in 1..Len(render_groups) :
          /\ Len(GroupAt(n).layers) = 3
          /\ DrawingHeight % 3 # 0
          /\ RowHeight(GroupAt(n), 2) > RowHeight(GroupAt(n), 0)
          /\ RowTop(GroupAt(n), 2) = 2 * RowHeight(GroupAt(n), 0)


\* ------------------------------------------------------------------ C11
\* C11: after any sequence of rescans, added zones and drags that starts
\* from note ranges on the axis, every range with start <= end lies on the
\* axis: 0 <= start and end <= 127.
C11_AxisRange ==
    \A s \in Range(samplomatics) :
        sr[s].start <= sr[s].end
            => 0 <= sr[s].start /\ sr[s].end <= param_scale


\* ------------------------------------------------------------------ C12
\* C12: no group of render_groups has a member whose start is greater than
\* its end.
C12_NoDegenerateMember ==
    \A k \in 1..Len(render_groups) :
        \A s \in Range(gr[render_groups[k]].sranges) :
            sr[s].start <= sr[s].end


\* ------------------------------------------------------------------ C19
\* The range s goes through a drag event in this step.
InDrag(s) ==
    /\ s \in Range(samplomatics)
    /\ sr[s].start <= sr[s].end
    /\ sr'[s].in_motion

\* C19: a drag event on a range with start <= end leaves start <= end; a
\* move keeps end - start, a resize of the right edge keeps start, and a
\* resize of the left edge keeps end.
C19_GesturesKeepOrder ==
    [][\A s \in SrIds : InDrag(s) =>
          /\ sr'[s].start <= sr'[s].end
          /\ sr'[s].resize_side = 0 =>
                 sr'[s].end - sr'[s].start = sr[s].end - sr[s].start
          /\ sr'[s].resize_side > 0 => sr'[s].start = sr[s].start
          /\ sr'[s].resize_side < 0 => sr'[s].end = sr[s].end]_vars

\* A range of two notes whose left edge was dragged to its end: the drag
\* is going on and the range is one note long.
C19_Witness ==
    \E s \in Range(samplomatics) :
        /\ sr[s].in_motion
        /\ sr[s].resize_side < 0
        /\ sr[s].end - sr[s].resize_start_left = 1
        /\ sr[s].start = sr[s].end


\* ------------------------------------------------------------------ C20
\* C20: in every state reached through rescan, add-zone and drag events, the
\* render_group of every live range is a group of render_groups that has
\* the range as a member, every member of a group of render_groups points
\* back to that group, and no assertion of move_through_groups has failed.
\* SpecHost follows the rescans and drags of a track that holds up to
\* MaxRanges instruments with any note ranges the host can hold.
C20_BackPointers ==
    /\ \A s \in Tracked :
          /\ sr[s].render_group \in Range(render_groups)
          /\ s \in Range(gr[sr[s].render_group].sranges)
    /\ \A k \in 1..Len(render_groups) :
          \A s \in Range(GroupAt(k).sranges) :
              sr[s].render_group = render_groups[k]
    /\ raised # "AssertionError"

\* ------------------------------------------------------------------ C21
\* The call move_through_groups makes for the range s with the bounds
\* [a, b]: its result, before the handler returns.
Called(s, a, b) ==
    move_through_groups([Ctx EXCEPT !.sr[s].start = a, !.sr[s].end = b],
                        render_groups, s)

\* The group g of the list is in the result r of a call as it was: the same
\* object in the list, with its members, bounds and layers, and every member
\* with its group, layer and layer count.
Untouched(g, r) ==
    /\ g \in Range(r.groups)
    /\ r.c.gr[g] = gr[g]
    /\ \A t \in Range(gr[g].sranges) :
          /\ r.c.sr[t].render_group = sr[t].render_group
          /\ r.c.sr[t].layer = sr[t].layer
          /\ r.c.sr[t].layer_count = sr[t].layer_count

\* The groups of the list that do not hold s and whose bounds have no note
\* in common with [a, b].
Bystanders(s, a, b) ==
    {g \in Range(render_groups) :
        /\ sr[s].render_group # g
        /\ ~Overlap([start |-> a, end |-> b], gr[g])}

\* The call move_through_groups makes for a new range with the bounds
\* [a, b].
CalledNew(a, b) ==
    move_through_groups([Ctx EXCEPT !.sr[NewRange(sr)] = SamploRange(a, b)],
                        render_groups, NewRange(sr))

\* C21: in every state, every call of move_through_groups, for a live range
\* with new bounds or for a new range, leaves unchanged every group that
\* neither holds the range nor has bounds overlapping the range's new
\* bounds.
C21_Locality ==
    /\ \A s \in Tracked : \A a \in Notes, b \in Notes :
          (a <= b /\ <<a, b>> # <<sr[s].start, sr[s].end>>) =>
              With(Called(s, a, b), LAMBDA r :
                  \A g \in Bystanders(s, a, b) : Untouched(g, r))
    /\ Len(samplomatics) < MaxRanges =>
          \A a \in Notes, b \in Notes :
              a <= b =>
                  With(CalledNew(a, b), LAMBDA r :
                      \A g \in Bystanders(NewRange(sr), a, b) :
                          Untouched(g, r))

\* Three groups of one range each, and an update that takes one range to the
\* group of another while the third group stands by.
C21_Witness ==
    /\ Len(render_groups) = 3
    /\ \E s \in Tracked : \E a \in Notes, b \in Notes :
          /\ a <= b
          /\ Bystanders(s, a, b) # {}
          /\ With(Called(s, a, b), LAMBDA r :
                 /\ Len(r.groups) = 2
                 /\ Len(r.c.gr[r.c.sr[s].render_group].sranges) = 2)


\* ------------------------------------------------------------------ C22
\* The callbacks that are registered to run later on the current track.
DelayedCallbacks == {"parse", "track_name", "separate_samplomatics"}

\* Tk runs a delayed callback in this step.
RunsDelayed ==
    /\ DueTimer # 0
    /\ timers[DueTimer].cb \in DelayedCallbacks
    /\ timers' = WithoutTimer(DueTimer)

\* C22: whenever a delayed parse, name update or separate_samplomatics
\* callback runs, current_track is not None.
C22_CallbackHasTrack == [][RunsDelayed => current_track # None]_vars


\* ------------------------------------------------------------------ C23
\* The mode the place of the pointer over the widget of r asks for: 1 on the
\* right handle, -1 on the left handle, 0 between them.  A handle is 20
\* pixels wide, and 20/3 pixels on a range of at most three notes; the
\* comparison is made on three times the pixels.
ModeAt(r) ==
    LET handle3 == IF r.end - r.start <= 2 THEN 20 ELSE 60
        width == 20 * (r.end - r.start + 1)
    IN  IF 3 * r.mouse_current_x >= 3 * width - handle3 THEN 1
        ELSE IF 3 * r.mouse_current_x < handle3 THEN -1
        ELSE 0

\* The widget of the range s gets a <B1-Motion> event in this step.
DragEvent(s) ==
    /\ s \in Range(samplomatics)
    /\ sr'[s].in_motion
    /\ samplomatics' = samplomatics
    /\ fxs' = fxs

\* C23: the first <B1-Motion> event of a drag sets resize_side from the
\* place of the pointer, later events of the drag leave it as it is, a
\* range that is not in a drag has resize_side 0, and an event that leaves
\* start and end as they were leaves the groups and every range's group,
\* layer and layer count as they were.
C23_ModePerDrag ==
    [][\A s \in SrIds :
          /\ (DragEvent(s) /\ ~sr[s].in_motion) =>
                 sr'[s].resize_side = ModeAt(sr[s])
          /\ (DragEvent(s) /\ sr[s].in_motion) =>
                 sr'[s].resize_side = sr[s].resize_side
          /\ (s \in Range(samplomatics') /\ ~sr'[s].in_motion) =>
                 sr'[s].resize_side = 0
          /\ (DragEvent(s) /\ sr'[s].start = sr[s].start
                           /\ sr'[s].end = sr[s].end) =>
                 /\ gr' = gr
                 /\ render_groups' = render_groups
                 /\ \A u \in SrIds :
                       /\ sr'[u].render_group = sr[u].render_group
                       /\ sr'[u].layer = sr[u].layer
                       /\ sr'[u].layer_count = sr[u].layer_count]_vars

\* A range that was released after an earlier drag and is now in a drag
\* that began between the handles: the drag has moved it.
C23_Witness ==
    \E s \in Range(samplomatics) :
        /\ last_touched = s
        /\ sr[s].in_motion
        /\ sr[s].resize_side = 0
        /\ sr[s].mouse_current_x = 10
        /\ sr[s].start # sr[s].resize_start_left
        /\ FromParam(fxs[sr[s].fx[1]][sr[s].fx[2]].note_start)
               = sr[s].resize_start_left


\* ------------------------------------------------------------------ C24
\* The poll that is due, as Tk holds it, and as it is held when registered.
DuePoll == [cb |-> "check_selected", due |-> 0, frac |-> 0]
NextPoll == [cb |-> "check_selected", due |-> 5, frac |-> 0]

\* Tk runs the poll check_selected in this step: the poll was the callback
\* to run and is no longer due.
RunsPoll ==
    /\ DueTimer # 0
    /\ timers[DueTimer] = DuePoll
    /\ \A i \in 1..Len(timers') : timers'[i] # DuePoll

\* The pending callbacks but the one Tk runs.
OtherTimers ==
    [j \in 1..(Len(timers) - 1) |->
        IF j < DueTimer THEN timers[j] ELSE timers[j + 1]]

\* C24: a poll that runs while freeze is set leaves current_track,
\* samplomatics and render_groups as they were, registers no parse, and
\* registers itself for 500 ms later.
C24_FrozenPoll ==
    [][(freeze /\ RunsPoll) =>
          /\ current_track' = current_track
          /\ samplomatics' = samplomatics
          /\ render_groups' = render_groups
          /\ gr' = gr
          /\ sr' = sr
          /\ timers' = Append(OtherTimers, NextPoll)]_vars

\* The poll has just run with freeze set, no track is selected, and the
\* script still shows the ranges of its current track.
C24_Witness ==
    /\ freeze
    /\ timers # <<>>
    /\ timers[Len(timers)] = NextPoll
    /\ selected_tracks = {}
    /\ current_track # None
    /\ samplomatics # <<>>


\* ------------------------------------------------------------------ C25
\* The number of ways to go from one track to another over at most k MIDI
\* sends, one after the other.
RECURSIVE Walks(_, _, _)
RECURSIVE WalksOver(_, _, _, _)
WalksOver(from, i, to, k) ==
    IF i > Len(sends[from]) THEN 0
    ELSE Walks(sends[from][i], to, k - 1) + WalksOver(from, i + 1, to, k)

Walks(from, to, k) ==
    (IF from = to THEN 1 ELSE 0)
        + (IF k = 0 THEN 0 ELSE WalksOver(from, 1, to, k))

\* C25: a rescan ends, for every send graph, without an exception; the
\* ranges it leaves are on tracks that fewer than max_recursion_depth MIDI
\* sends lead to from the current track; and the lists were emptied once,
\* before the first range was inserted: each instrument has one range for
\* each way fewer than max_recursion_depth sends lead to its track, none
\* is left from before, and the groups hold these ranges and no others.
C25_RescanBounded ==
    [][/\ raised' = ""
       /\ \A s \in Range(samplomatics') :
             Walks(current_track, sr'[s].fx[1], max_recursion_depth - 1) > 0
       /\ \A tr \in Tracks : \A i \in 1..Len(fxs[tr]) :
             Cardinality({k \in 1..Len(samplomatics') :
                             sr'[samplomatics'[k]].fx = <<tr, i>>})
                 = Walks(current_track, tr, max_recursion_depth - 1)
       /\ \A k \in 1..Len(samplomatics') :
             /\ sr'[samplomatics'[k]].fx[1] \in Tracks
             /\ sr'[samplomatics'[k]].fx[2]
                    \in 1..Len(fxs[sr'[samplomatics'[k]].fx[1]])
       /\ UNION {Range(gr'[render_groups'[k]].sranges) :
                    k \in 1..Len(render_groups')}
              = Range(samplomatics')]_vars

\* Two tracks send to each other, and the rescan of one of them has left
\* MaxParsed ranges for the one instrument of the project.
C25_Witness ==
    /\ \A tr \in Tracks : sends[tr] # <<>>
    /\ Len(samplomatics) = MaxParsed
    /\ \E tr \in Tracks : fxs[tr] = <<>>
    /\ raised = ""


\* ------------------------------------------------------------------ C26
\* The callbacks separate has registered and Tk has not run yet.
PendingSeparations(queue) ==
    Cardinality({i \in 1..Len(queue) :
                    queue[i].cb = "separate_samplomatics"})

\* Tk runs separate_samplomatics in this step, for a current track.
RunsSeparate ==
    /\ DueTimer # 0
    /\ timers[DueTimer].cb = "separate_samplomatics"
    /\ PendingSeparations(timers') < PendingSeparations(timers)
    /\ current_track # None

\* The tracks the step has added; they come after the current track.
AddedTracks == (current_track + 1)..(current_track + ntracks' - ntracks)

\* The added tracks that hold an instrument after the step.
InstanceTracks == {p \in AddedTracks : fxs'[p] # <<>>}

\* C26: when separate_samplomatics has run for a current track, it has
\* ended without an exception and the current track holds no instrument; the tracks added for the instruments
\* are as many as the instruments the track held, each holds exactly one
\* of them, each instrument is on one of them, and the current track has a
\* send to each; the only other track added is the bus, if one is made; and
\* the other tracks keep their instruments.
C26_SeparateMovesAll ==
    [][RunsSeparate =>
          /\ raised' = ""
          /\ fxs'[current_track] = <<>>
          /\ Cardinality(InstanceTracks) = Len(fxs[current_track])
          /\ \A p \in InstanceTracks : Len(fxs'[p]) = 1
          /\ \A i \in 1..Len(fxs[current_track]) :
                Cardinality({k \in 1..Len(fxs[current_track]) :
                                fxs[current_track][k] = fxs[current_track][i]})
                    = Cardinality({p \in InstanceTracks :
                                      fxs'[p][1] = fxs[current_track][i]})
          /\ \A p \in InstanceTracks : Count(sends'[current_track], p) = 1
          /\ Cardinality(AddedTracks \ InstanceTracks) <= 1
          /\ \A tr \in 1..ntracks :
                /\ tr < current_track => fxs'[tr] = fxs[tr]
                /\ tr > current_track =>
                       fxs'[tr + ntracks' - ntracks] = fxs[tr]]_vars

\* The current track has given its two instruments, which differ, to two
\* tracks after it, behind a bus track, and has a send to each of the two.
C26_Witness ==
    /\ current_track # None
    /\ raised = ""
    /\ ntracks >= current_track + 3
    /\ fxs[current_track] = <<>>
    /\ fxs[current_track + 1] = <<>>
    /\ Len(fxs[current_track + 2]) = 1
    /\ Len(fxs[current_track + 3]) = 1
    /\ fxs[current_track + 2] # fxs[current_track + 3]
    /\ Count(sends[current_track], current_track + 2) = 1
    /\ Count(sends[current_track], current_track + 3) = 1

====
